---------------------------- MODULE Spec2Model ----------------------------
(***************************************************************************)
(* A model of NeoMaze: the maze generator, the spot sampler, the path      *)
(* finder (src/utils/maze.ts) and the collision test and frame update of   *)
(* the game session (src/App.tsx).                                         *)
(*                                                                         *)
(* Grids are indexed grid[z][x] with z, x counted from 0, as in the code.  *)
(***************************************************************************)
EXTENDS Integers, Sequences, FiniteSets, TLC

(***************************************************************************)
(* CellType (src/utils/maze.ts, enum CellType).                            *)
(***************************************************************************)
WALL == 0
PATH == 1
START == 2
END == 3

(***************************************************************************)
(* LEVELS (src/constants.ts), counted from 1 here where the code counts    *)
(* from 0.                                                                 *)
(***************************************************************************)
LEVELS ==
    <<[size |-> 7, obstacles |-> 0, movingObstacles |-> FALSE],
      [size |-> 9, obstacles |-> 2, movingObstacles |-> FALSE],
      [size |-> 11, obstacles |-> 4, movingObstacles |-> TRUE],
      [size |-> 13, obstacles |-> 6, movingObstacles |-> TRUE],
      [size |-> 15, obstacles |-> 8, movingObstacles |-> TRUE]>>

(***************************************************************************)
(* Bounds of the maze generator's inputs: the generator is run for every   *)
(* odd width in 5 .. 2*MaxRoomsX+1 and odd height in 5 .. 2*MaxRoomsZ+1.   *)
(***************************************************************************)
MaxRoomsX == 4
MaxRoomsZ == 3

MazeWidths == {2 * r + 1 : r \in 2..MaxRoomsX}
MazeHeights == {2 * r + 1 : r \in 2..MaxRoomsZ}

VARIABLES
    width, height,  \* generateMaze's arguments
    grid,           \* the grid being built, grid[z][x]
    carved,         \* the Set of carved rooms, a room's key as the pair <<x, z>>
    stack,          \* the call stack of carve: frames [x, z, dirs], top last
    pc,             \* generateMaze's position: "idle", "start", "carve", "finish",
                    \* "done"
    start, end,     \* the positions generateMaze returns
    origin,         \* "generated": grid is generateMaze's; "given": an input grid
    asked,          \* whether findShortestPath has been called
    qStart, qEnd,   \* findShortestPath's arguments start and end
    route,          \* what findShortestPath returned
    spPc,           \* findEmptySpots' position: "idle", "loop", "returned"
    count, excludeNearStart,    \* findEmptySpots' arguments
    spots,          \* findEmptySpots' array of spots
    attempts,       \* findEmptySpots' const attempts
    iterations,     \* the parity of the number of iterations of its while loop
    probed,         \* whether checkWallCollision has been called
    probeX, probeZ, \* checkWallCollision's arguments x and z, in tenths
    blocked,        \* what checkWallCollision returned
    phase,          \* App's state phase
    levelIndex,     \* App's state levelIndex
    lives,          \* App's state lives
    timer,          \* App's state timer
    isPaused,       \* App's state isPaused
    canPulverise,   \* App's state canPulverise
    pulveriseCooldown,  \* App's state pulveriseCooldown
    optimalPath,    \* App's state optimalPath
    obstacles,      \* App's state obstacles
    powerUps,       \* App's state powerUps
    playerPos,      \* App's state playerPos, in tenths
    playerRotation, \* App's state playerRotation, in quarter turns
    invulnerable,   \* invulnerableRef.current
    hitTimeouts,    \* the pending timeouts set by handleHit
    revealTimeouts  \* the pending timeouts set by collectPowerUp

mazeVars == <<width, height, grid, carved, stack, pc, start, end>>
pathVars == <<asked, qStart, qEnd, route>>
spotVars == <<spPc, count, excludeNearStart, spots, attempts, iterations>>
probeVars == <<probed, probeX, probeZ, blocked>>
gameVars == <<phase, levelIndex, lives, timer, isPaused, canPulverise,
              pulveriseCooldown, optimalPath, obstacles, powerUps, playerPos,
              playerRotation, invulnerable, hitTimeouts, revealTimeouts>>

\* what the maze generator leaves alone
callerVars == <<origin, pathVars, spotVars, probeVars, gameVars>>

vars == <<mazeVars, origin, pathVars, spotVars, probeVars, gameVars>>

(***************************************************************************)
(* A continuous coordinate is kept in tenths of a grid unit: 10 is one     *)
(* cell, and Math.floor and Math.ceil are taken on the tenths.             *)
(***************************************************************************)
Floor(v) == v \div 10
Ceil(v) == -((-v) \div 10)

\* a grid cell's coordinates read as a continuous position
AsPosition(cell) == [x |-> 10 * cell.x, z |-> 10 * cell.z]

(***************************************************************************)
(* generateMaze                                                            *)
(***************************************************************************)

\* const directions (North, East, South, West)
directions == <<[x |-> 0, z |-> -2], [x |-> 2, z |-> 0],
                [x |-> 0, z |-> 2], [x |-> -2, z |-> 0]>>

\* shuffle: array.sort with a random comparator returns the same elements in
\* an order the random draws decide; every order is taken to be possible.
\* The order is drawn as the for loop reads it: a frame of carve keeps the
\* directions its loop has not visited yet, and the next one visited is any of
\* them.  The runs are those of drawing the whole order on entry.
shuffle(array) == {array[i] : i \in 1..Len(array)}

\* isInBounds one short at the far side of z
isInBoundsShort(x, z, w, h) == x > 0 /\ x < w - 1 /\ z > 0 /\ z < h - 2

isInBounds(x, z, w, h) == x > 0 /\ x < w - 1 /\ z > 0 /\ z < h - 1

\* Array(height).fill(null).map(() => Array(width).fill(CellType.WALL))
WallGrid(w, h) == [z \in 0..(h - 1) |-> [x \in 0..(w - 1) |-> WALL]]

SetCell(g, x, z, c) == [g EXCEPT ![z][x] = c]

\* Between without the halving: the neighbour room itself
BetweenWhole(x, z, dir) == [x |-> x + dir.x, z |-> z + dir.z]

\* the wall cell between (x, z) and its neighbour in direction dir
Between(x, z, dir) == [x |-> x + dir.x \div 2, z |-> z + dir.z \div 2]

\* the session has called nothing but generateMaze
IdlePath ==
    /\ asked = FALSE
    /\ qStart = [x |-> 0, z |-> 0]
    /\ qEnd = [x |-> 0, z |-> 0]
    /\ route = <<>>

\* findEmptySpots has not been called
IdleSpots ==
    /\ spPc = "idle"
    /\ count = 0
    /\ excludeNearStart = TRUE
    /\ spots = <<>>
    /\ attempts = 0
    /\ iterations = 0

\* checkWallCollision has not been called
IdleProbe ==
    /\ probed = FALSE
    /\ probeX = 0
    /\ probeZ = 0
    /\ blocked = FALSE

\* the App as it is mounted: the values its state hooks and refs start with
IdleGame ==
    /\ phase = "MENU"
    /\ levelIndex = 0
    /\ lives = 3
    /\ timer = 0
    /\ isPaused = FALSE
    /\ canPulverise = FALSE
    /\ pulveriseCooldown = 0
    /\ optimalPath = <<>>
    /\ obstacles = <<>>
    /\ powerUps = <<>>
    /\ playerPos = [x |-> 10, z |-> 10]
    /\ playerRotation = 0
    /\ invulnerable = FALSE
    /\ hitTimeouts = 0
    /\ revealTimeouts = 0

InitMaze ==
    /\ origin = "generated"
    /\ IdlePath
    /\ IdleSpots
    /\ IdleProbe
    /\ IdleGame
    /\ width \in MazeWidths
    /\ height \in MazeHeights
    /\ grid = WallGrid(width, height)
    /\ carved = {}
    /\ stack = <<>>
    /\ pc = "start"
    /\ start = [x |-> 1, z |-> 1]
    /\ end = [x |-> 1, z |-> 1]

\* The entry of a call carve(x, z) on grid g with carved set c: the room is
\* recorded and opened and the directions are shuffled.
CarveEnter(x, z, g, c) ==
    /\ carved' = c \cup {<<x, z>>}
    /\ grid' = SetCell(g, x, z, PATH)
    /\ stack' = Append(stack, [x |-> x, z |-> z, dirs |-> shuffle(directions)])

\* carve(1, 1)
CarveStart ==
    /\ pc = "start"
    /\ CarveEnter(1, 1, grid, carved)
    /\ pc' = "carve"
    /\ UNCHANGED <<width, height, start, end, callerVars>>

\* whether the for loop's test lets carve go from (x, z) in direction dir
Free(x, z, dir, w, h, c) ==
    isInBounds(x + dir.x, z + dir.z, w, h) /\ <<x + dir.x, z + dir.z>> \notin c

\* The for loop of the innermost running call reaches a direction whose
\* neighbour is in bounds and not carved: the wall between is opened and
\* carve(nx, nz) is called.  The iterations before it that pass over an
\* out-of-bounds or carved neighbour change nothing and are part of this step
\* (a neighbour once carved stays carved, so the directions left in dirs that
\* are not Free are passed over whenever the loop reads them).
CarveInto ==
    /\ pc = "carve"
    /\ stack # <<>>
    /\ LET top == stack[Len(stack)] IN
       \E dir \in top.dirs :
          LET nx == top.x + dir.x
              nz == top.z + dir.z
              b == Between(top.x, top.z, dir)
              rest == [stack EXCEPT ![Len(stack)].dirs = top.dirs \ {dir}]
          IN  /\ Free(top.x, top.z, dir, width, height, carved)
              /\ carved' = carved \cup {<<nx, nz>>}
              /\ grid' = SetCell(SetCell(grid, b.x, b.z, PATH), nx, nz, PATH)
              /\ stack' = Append(rest, [x |-> nx, z |-> nz,
                                        dirs |-> shuffle(directions)])
    /\ UNCHANGED <<width, height, pc, start, end, callerVars>>

\* The for loop of the innermost call passes over every direction it has left
\* and the call returns.
CarveReturn ==
    /\ pc = "carve"
    /\ stack # <<>>
    /\ LET top == stack[Len(stack)] IN
       \A dir \in top.dirs : ~Free(top.x, top.z, dir, width, height, carved)
    /\ stack' = SubSeq(stack, 1, Len(stack) - 1)
    /\ pc' = IF Len(stack) = 1 THEN "finish" ELSE "carve"
    /\ UNCHANGED <<width, height, grid, carved, start, end, callerVars>>

\* the END candidate one off: the border corner
EndCandidateCorner(w, h) == [x |-> w - 1, z |-> h - 1]

\* let endX = width - 2; let endY = height - 2
EndCandidate(w, h) == [x |-> w - 2, z |-> h - 2]

\* The while loop that walks the END candidate back while it is a WALL cell:
\* x first, then z.  spin: the loop can no longer move and the cell is WALL,
\* where the code loops forever.
RECURSIVE WalkBack(_, _, _)
WalkBack(g, endX, endY) ==
    IF g[endY][endX] = WALL
      THEN IF endX > 1 THEN WalkBack(g, endX - 1, endY)
           ELSE IF endY > 1 THEN WalkBack(g, endX, endY - 1)
           ELSE [x |-> endX, z |-> endY, spin |-> TRUE]
      ELSE [x |-> endX, z |-> endY, spin |-> FALSE]

\* After carve(1, 1) returns: START and END are marked and the result returned.
Finish ==
    /\ pc = "finish"
    /\ LET g1 == SetCell(grid, 1, 1, START)
           c == EndCandidate(width, height)
           e == WalkBack(g1, c.x, c.z)
       IN  /\ ~e.spin
           /\ grid' = SetCell(g1, e.x, e.z, END)
           /\ start' = [x |-> 1, z |-> 1]
           /\ end' = [x |-> e.x, z |-> e.z]
    /\ pc' = "done"
    /\ UNCHANGED <<width, height, carved, stack, callerVars>>

NextMaze == CarveStart \/ CarveInto \/ CarveReturn \/ Finish

SpecMaze == InitMaze /\ [][NextMaze]_vars


(***************************************************************************)
(* findShortestPath                                                        *)
(***************************************************************************)

\* Bounds of the input grids findShortestPath is given directly: every grid
\* of GivenW x GivenH cells, each WALL or PATH.
GivenW == 3
GivenH == 2

GivenGrids == [0..(GivenH - 1) -> [0..(GivenW - 1) -> {WALL, PATH}]]

\* neighbors with a slip in its third entry: a diagonal step
neighborsDiagonal(pos) ==
    <<[x |-> pos.x + 1, z |-> pos.z], [x |-> pos.x - 1, z |-> pos.z],
      [x |-> pos.x + 1, z |-> pos.z + 1], [x |-> pos.x, z |-> pos.z - 1]>>

\* const neighbors, in the order the for loop reads them
neighbors(pos) ==
    <<[x |-> pos.x + 1, z |-> pos.z], [x |-> pos.x - 1, z |-> pos.z],
      [x |-> pos.x, z |-> pos.z + 1], [x |-> pos.x, z |-> pos.z - 1]>>

\* the bounds check and the walkable check of the for loop
Walkable(g, n) ==
    /\ n.z >= 0 /\ n.z < Cardinality(DOMAIN g) /\ n.x >= 0 /\ n.x < Cardinality(DOMAIN g[0])
    /\ g[n.z][n.x] # WALL

\* The for loop over neighbors: st = [queue, visited] after the neighbours
\* from index i on have been read.
RECURSIVE Expand(_, _, _, _, _)
Expand(g, ns, i, path, st) ==
    IF i > Len(ns) THEN st
    ELSE LET n == ns[i] IN
         IF Walkable(g, n) /\ <<n.x, n.z>> \notin st.visited
           THEN Expand(g, ns, i + 1, path,
                       [queue |-> Append(st.queue, [pos |-> n, path |-> Append(path, n)]),
                        visited |-> st.visited \cup {<<n.x, n.z>>}])
           ELSE Expand(g, ns, i + 1, path, st)

\* Search taking the newest entry of the queue (pop) instead of the oldest
RECURSIVE SearchNewest(_, _, _, _, _)
SearchNewest(g, queue, visited, endX, endZ) ==
    IF queue = <<>> THEN <<>>
    ELSE LET head == queue[Len(queue)] IN
         IF head.pos.x = endX /\ head.pos.z = endZ THEN head.path
         ELSE LET st == Expand(g, neighbors(head.pos), 1, head.path,
                               [queue |-> SubSeq(queue, 1, Len(queue) - 1),
                                visited |-> visited])
              IN  SearchNewest(g, st.queue, st.visited, endX, endZ)

\* The while loop over the queue.
RECURSIVE Search(_, _, _, _, _)
Search(g, queue, visited, endX, endZ) ==
    IF queue = <<>> THEN <<>>
    ELSE LET head == Head(queue) IN
         IF head.pos.x = endX /\ head.pos.z = endZ THEN head.path
         ELSE LET st == Expand(g, neighbors(head.pos), 1, head.path,
                               [queue |-> Tail(queue), visited |-> visited])
              IN  Search(g, st.queue, st.visited, endX, endZ)

findShortestPath(g, s, e) ==
    LET startX == Floor(s.x)
        startZ == Floor(s.z)
        endX == Floor(e.x)
        endZ == Floor(e.z)
        first == [x |-> startX, z |-> startZ]
    IN  Search(g, <<[pos |-> first, path |-> <<first>>]>>,
               {<<startX, startZ>>}, endX, endZ)

\* the continuous position in cell (cx, cz) that lies f tenths past its corner
\* in both axes
PositionIn(cx, cz, f) == [x |-> 10 * cx + f, z |-> 10 * cz + f]

\* the positions findShortestPath is asked from: on every cell of the grid the
\* corner (whole coordinates) or the centre
PositionsOn(g, f) == {PositionIn(x, z, f) : x \in DOMAIN g[0], z \in DOMAIN g}

\* findShortestPath is given a grid directly.
InitGiven ==
    /\ origin = "given"
    /\ IdlePath
    /\ IdleSpots
    /\ IdleProbe
    /\ IdleGame
    /\ width = GivenW
    /\ height = GivenH
    /\ grid \in GivenGrids
    /\ carved = {}
    /\ stack = <<>>
    /\ pc = "done"
    /\ start = [x |-> 0, z |-> 0]
    /\ end = [x |-> 0, z |-> 0]

\* findShortestPath(grid, s, e) between any two positions on a given grid
AskGiven ==
    /\ pc = "done"
    /\ origin = "given"
    /\ ~asked
    /\ \E f \in {0, 5} : \E s \in PositionsOn(grid, f), e \in PositionsOn(grid, f) :
          /\ qStart' = s
          /\ qEnd' = e
          /\ route' = findShortestPath(grid, s, e)
    /\ asked' = TRUE
    /\ UNCHANGED <<mazeVars, origin, spotVars, probeVars, gameVars>>

\* findShortestPath(grid, s, end) on a generated maze, from any position on
\* the grid to the END cell generateMaze returned
AskGenerated ==
    /\ pc = "done"
    /\ origin = "generated"
    /\ ~asked
    /\ \E f \in {0, 5} : \E s \in PositionsOn(grid, f) :
          /\ qStart' = s
          /\ qEnd' = AsPosition(end)
          /\ route' = findShortestPath(grid, s, AsPosition(end))
    /\ asked' = TRUE
    /\ UNCHANGED <<mazeVars, origin, spotVars, probeVars, gameVars>>

\* findShortestPath is given the maze generateMaze returns for the first
\* level's size.
InitGenerated ==
    /\ InitMaze
    /\ width = LEVELS[1].size
    /\ height = LEVELS[1].size

InitPath == InitGenerated \/ InitGiven

NextPath == NextMaze \/ AskGiven \/ AskGenerated

SpecPath == InitPath /\ [][NextPath]_vars

(***************************************************************************)
(* findEmptySpots                                                          *)
(***************************************************************************)

\* Bound of the count findEmptySpots is called with: 0 .. MaxCount.
MaxCount == 2

\* the bound the while loop tests attempts against
MAX_ATTEMPTS == 1000

\* the test of some(...) with x written for z in its second comparison
AlreadyPickedSlip(s, x, z) == \E i \in 1..Len(s) : s[i].x = x /\ s[i].z = x

\* !spots.some(s => s.x === x && s.z === z) negated: (x, z) is in spots
AlreadyPicked(s, x, z) == \E i \in 1..Len(s) : s[i].x = x /\ s[i].z = z

\* The body of the while loop for the random cell (x, z): the spots after it.
Sample(g, s, excl, x, z) ==
    IF g[z][x] = PATH
      THEN IF excl /\ x < 4 /\ z < 4 THEN s
           ELSE IF ~AlreadyPicked(s, x, z) THEN Append(s, [x |-> x, z |-> z])
           ELSE s
      ELSE s

\* the condition of the while loop
SpotsWanted == Len(spots) < count /\ attempts < MAX_ATTEMPTS

\* findEmptySpots(grid, c, excl) is called.
SpotsCall ==
    /\ pc = "done"
    /\ spPc = "idle"
    /\ \E c \in 0..MaxCount, excl \in BOOLEAN :
          /\ count' = c
          /\ excludeNearStart' = excl
    /\ spots' = <<>>
    /\ attempts' = 0
    /\ iterations' = 0
    /\ spPc' = "loop"
    /\ UNCHANGED <<mazeVars, origin, pathVars, probeVars, gameVars>>

\* One iteration of the while loop: a random cell of the grid is drawn,
\* Math.floor(Math.random() * width) being any of 0 .. width-1.  attempts is
\* a const: no iteration changes it.
SpotsTry ==
    /\ spPc = "loop"
    /\ SpotsWanted
    /\ \E x \in DOMAIN grid[0], z \in DOMAIN grid :
          spots' = Sample(grid, spots, excludeNearStart, x, z)
    /\ iterations' = 1 - iterations
    /\ UNCHANGED <<mazeVars, origin, pathVars, probeVars, gameVars, spPc, count,
                   excludeNearStart, attempts>>

\* The while loop's condition fails: return spots.
SpotsReturn ==
    /\ spPc = "loop"
    /\ ~SpotsWanted
    /\ spPc' = "returned"
    /\ UNCHANGED <<mazeVars, origin, pathVars, probeVars, gameVars, count,
                   excludeNearStart,
                   spots, attempts, iterations>>

InitSpots == InitGenerated \/ InitGiven

NextSpots == NextMaze \/ SpotsCall \/ SpotsTry \/ SpotsReturn

SpecSpots == InitSpots /\ [][NextSpots]_vars

\* The while loop keeps running while its condition holds, and the calls
\* before and after it are made.
FairSpots == SpecSpots /\ WF_vars(NextMaze) /\ WF_vars(SpotsCall)
                       /\ WF_vars(SpotsTry) /\ WF_vars(SpotsReturn)

(***************************************************************************)
(* checkWallCollision (src/App.tsx).  Lengths are in tenths of a grid      *)
(* unit: the player's radius 0.3 is 3, a cell's half side 0.5 is 5.        *)
(***************************************************************************)

PLAYER_RADIUS == 3

\* Bound of the square input grids checkWallCollision is given directly:
\* every grid of ProbeSide x ProbeSide cells, each WALL or PATH.
ProbeSide == 2

\* the range with Math.floor written for Math.ceil at its end
CellRangeFloor(pMin, pMax) == Floor(pMin - 5)..(Floor(pMax + 5) - 1)

\* the cells the for loops run over in one axis:
\* from Math.floor(pMin - 0.5) up to, not including, Math.ceil(pMax + 0.5)
CellRange(pMin, pMax) == Floor(pMin - 5)..(Ceil(pMax + 5) - 1)

\* the overlap test of the player's box with the square of cell (cx, cz)
BoxOverlap(pMinX, pMaxX, pMinZ, pMaxZ, cx, cz) ==
    LET wMinX == 10 * cx - 5
        wMaxX == 10 * cx + 5
        wMinZ == 10 * cz - 5
        wMaxZ == 10 * cz + 5
    IN  pMinX < wMaxX /\ pMaxX > wMinX /\ pMinZ < wMaxZ /\ pMaxZ > wMinZ

\* The loops return true at the first WALL cell of the range that overlaps
\* and false when there is none.
checkWallCollision(x, z, map) ==
    LET pMinX == x - PLAYER_RADIUS
        pMaxX == x + PLAYER_RADIUS
        pMinZ == z - PLAYER_RADIUS
        pMaxZ == z + PLAYER_RADIUS
    IN  \E cz \in CellRange(pMinZ, pMaxZ), cx \in CellRange(pMinX, pMaxX) :
           /\ cz >= 0 /\ cz < Cardinality(DOMAIN map)
           /\ cx >= 0 /\ cx < Cardinality(DOMAIN map[0])
           /\ map[cz][cx] = WALL
           /\ BoxOverlap(pMinX, pMaxX, pMinZ, pMaxZ, cx, cz)

\* checkWallCollision is given a square grid directly.
InitSquare ==
    /\ origin = "given"
    /\ IdlePath
    /\ IdleSpots
    /\ IdleProbe
    /\ IdleGame
    /\ width = ProbeSide
    /\ height = ProbeSide
    /\ grid \in [0..(ProbeSide - 1) -> [0..(ProbeSide - 1) -> {WALL, PATH}]]
    /\ carved = {}
    /\ stack = <<>>
    /\ pc = "done"
    /\ start = [x |-> 0, z |-> 0]
    /\ end = [x |-> 0, z |-> 0]

\* checkWallCollision(x, z, grid) at any position, by tenths, on the grid or
\* up to one cell outside it
Probe ==
    /\ pc = "done"
    /\ ~probed
    /\ \E x \in (-10)..(10 * width), z \in (-10)..(10 * height) :
          /\ probeX' = x
          /\ probeZ' = z
          /\ blocked' = checkWallCollision(x, z, grid)
    /\ probed' = TRUE
    /\ UNCHANGED <<mazeVars, origin, pathVars, spotVars, gameVars>>

InitProbe == InitGenerated \/ InitSquare

NextProbe == NextMaze \/ Probe

SpecProbe == InitProbe /\ [][NextProbe]_vars

(***************************************************************************)
(* The game session (App)                                                  *)
(***************************************************************************)

\* PULVERISE_RADIUS, in tenths
PULVERISE_RADIUS == 35

\* MEMORIZE_TIME
MEMORIZE_TIME == 10

\* The highest level index a session goes on to: PROCEED NEXT is pressed
\* while levelIndex is below it.
MaxLevel == 1

\* The timeouts of collectPowerUp that a session lets pend at once: a path is
\* revealed while fewer are pending.
MaxTimeouts == 2

\* What a tick reads from the joysticks and the clock.  The two refs are
\* written by the joysticks' onMove between frames, so a tick reads any
\* vector.  Travels: moveX and moveY, each times PLAYER_SPEED * deltaTime, in
\* tenths: a stick held fully over during a tenth of a second, a stride that
\* stops the player within reach of END and of an obstacle next to it.  Turns: lookX * rotationSpeed * deltaTime, in quarter turns, the
\* headings of a session being the multiples of a quarter turn.
Travels == {-4, 0, 4}
Turns == {-1, 0, 1}

\* Math.sin(t * speed) * range of a patrol, in tenths: the ends and the middle
PatrolOffsets == {-15, 0, 15}

\* Math.random() > 0.5 ? 'x' : 'z'
AxisDraws == {"x", "z"}

\* Math.random() > 0.6 ? EXTRA_LIFE : MAP_REVEAL
TypeDraws == {"EXTRA_LIFE", "MAP_REVEAL"}

\* Math.sin and Math.cos of a heading of q quarter turns
Sin(q) == CASE q % 4 = 0 -> 0 [] q % 4 = 1 -> 1 [] q % 4 = 2 -> 0 [] OTHER -> -1
Cos(q) == CASE q % 4 = 0 -> 1 [] q % 4 = 1 -> 0 [] q % 4 = 2 -> -1 [] OTHER -> 0

\* the square of the distance of two positions, in tenths squared
Dist2(ax, az, bx, bz) == (ax - bx) * (ax - bx) + (az - bz) * (az - bz)

\* const config = LEVELS[index] || LEVELS[LEVELS.length - 1]
LevelConfig(index) ==
    IF index + 1 <= Len(LEVELS) THEN LEVELS[index + 1] ELSE LEVELS[Len(LEVELS)]

\* the size with extraSize counted from the level after the first one past
\* the table
LevelSizeShort(index) ==
    LET extraSize == IF index >= Len(LEVELS)
                       THEN (index - Len(LEVELS)) * 2 ELSE 0
    IN  LevelConfig(index).size + extraSize

\* const size = config.size + extraSize
LevelSize(index) ==
    LET extraSize == IF index >= Len(LEVELS)
                       THEN (index - Len(LEVELS) + 1) * 2 ELSE 0
    IN  LevelConfig(index).size + extraSize

\* The App is mounted: no maze has been generated.
InitSession ==
    /\ origin = "generated"
    /\ IdlePath
    /\ IdleSpots
    /\ IdleProbe
    /\ IdleGame
    /\ width = 0
    /\ height = 0
    /\ grid = <<>>
    /\ carved = {}
    /\ stack = <<>>
    /\ pc = "idle"
    /\ start = [x |-> 1, z |-> 1]
    /\ end = [x |-> 1, z |-> 1]

\* generateMaze when shuffle leaves directions in the order it is given
\* them, the order a session's mazes are generated with.  carve runs on
\* st = [grid, carved, stack], stack holding the rooms of the calls that have
\* not returned, innermost last.  One step: the for loop of the innermost
\* call goes on to its first direction, in the order of directions, whose
\* neighbour is in bounds and not carved, opens the wall between and calls
\* carve there; with no such direction the call returns.  (The directions the
\* loop has passed stay passed over: their neighbours stay out of bounds or
\* carved.)
carveStep(st, w, h) ==
    LET top == st.stack[Len(st.stack)]
        free == {i \in 1..Len(directions) :
                    Free(top.x, top.z, directions[i], w, h, st.carved)}
    IN  IF free = {}
          THEN [st EXCEPT !.stack = SubSeq(st.stack, 1, Len(st.stack) - 1)]
          ELSE LET dir == directions[CHOOSE i \in free : \A k \in free : i <= k]
                   nx == top.x + dir.x
                   nz == top.z + dir.z
                   b == Between(top.x, top.z, dir)
               IN  [grid |-> SetCell(SetCell(st.grid, b.x, b.z, PATH),
                                     nx, nz, PATH),
                    carved |-> st.carved \cup {<<nx, nz>>},
                    stack |-> Append(st.stack, [x |-> nx, z |-> nz])]

\* the steps of carve until the outermost call returns
RECURSIVE carve(_, _, _)
carve(st, w, h) ==
    IF st.stack = <<>> THEN st
    ELSE carve(CHOOSE next \in {carveStep(st, w, h)} : TRUE, w, h)

generateMaze(w, h) ==
    LET st == carve([grid |-> SetCell(WallGrid(w, h), 1, 1, PATH),
                     carved |-> {<<1, 1>>},
                     stack |-> <<[x |-> 1, z |-> 1]>>], w, h)
        g1 == SetCell(st.grid, 1, 1, START)
        c == EndCandidate(w, h)
        e == WalkBack(g1, c.x, c.z)
    IN  [grid |-> SetCell(g1, e.x, e.z, END), carved |-> st.carved,
         start |-> [x |-> 1, z |-> 1], end |-> [x |-> e.x, z |-> e.z],
         spin |-> e.spin]

\* findEmptySpots when the cells it draws are draws[i], draws[i + 1], ...:
\* the while loop from spots s on, until count spots are found.  It returns
\* fewer than count when the draws run out, where the code goes on drawing.
RECURSIVE findEmptySpots(_, _, _, _, _, _)
findEmptySpots(g, c, excl, draws, i, s) ==
    IF Len(s) < c /\ i <= Len(draws)
      THEN findEmptySpots(g, c, excl, draws, i + 1,
                          Sample(g, s, excl, draws[i].x, draws[i].z))
      ELSE s

\* Of the cells Math.random can draw, the sampler of a session draws the
\* cells of the route from START to END, from the one next to END backwards.
SessionDraws(g, s, e) ==
    LET r == findShortestPath(g, AsPosition(s), AsPosition(e))
    IN  [k \in 1..(Len(r) - 1) |-> r[Len(r) - k]]

\* startRot with the headings of East and West taken for each other
StartRotationMirrored(g, s) ==
    IF s.z > 0 /\ g[s.z - 1][s.x] # WALL THEN 0
    ELSE IF s.z < Cardinality(DOMAIN g) - 1 /\ g[s.z + 1][s.x] # WALL THEN 2
    ELSE IF s.x < Cardinality(DOMAIN g[0]) - 1 /\ g[s.z][s.x + 1] # WALL THEN 1
    ELSE IF s.x > 0 /\ g[s.z][s.x - 1] # WALL THEN 3
    ELSE 0

\* let startRot: the first open neighbour of start, North, South, East, West;
\* 0 = North, PI = South, -PI/2 = East, PI/2 = West, in quarter turns modulo
\* a whole turn
StartRotation(g, s) ==
    IF s.z > 0 /\ g[s.z - 1][s.x] # WALL THEN 0
    ELSE IF s.z < Cardinality(DOMAIN g) - 1 /\ g[s.z + 1][s.x] # WALL THEN 2
    ELSE IF s.x < Cardinality(DOMAIN g[0]) - 1 /\ g[s.z][s.x + 1] # WALL THEN 3
    ELSE IF s.x > 0 /\ g[s.z][s.x - 1] # WALL THEN 1
    ELSE 0

\* the obstacle with the patrols on the odd indexes
NewObstacleOdd(i, spot, config, axis) ==
    [id |-> <<"obs", i>>, x |-> spot.x, z |-> spot.z,
     type |-> IF config.movingObstacles /\ i % 2 = 1
                THEN "PATROL_ENEMY" ELSE "STATIC_SPIKE",
     axis |-> axis, speed |-> 15, range |-> 15]

\* the obstacle made on emptySpots[i + 1], the loop's i counting from 0;
\* speed, 1.5 + Math.random(), is taken at 1.5
NewObstacle(i, spot, config, axis) ==
    [id |-> <<"obs", i>>, x |-> spot.x, z |-> spot.z,
     type |-> IF config.movingObstacles /\ i % 2 = 0
                THEN "PATROL_ENEMY" ELSE "STATIC_SPIKE",
     axis |-> axis, speed |-> 15, range |-> 15]

\* the power-up made on emptySpots[i + 1]
NewPowerUp(i, spot, type) ==
    [id |-> <<"pwr", i>>, x |-> spot.x, z |-> spot.z, type |-> type,
     collected |-> FALSE]

\* The number of obstacles the loop "Add Obstacles" pushes for the spots s:
\* it runs i from 0 while i < config.obstacles and breaks at the first i
\* with no emptySpots[i].
ObstaclesMade(config, s) ==
    IF config.obstacles < Len(s) THEN config.obstacles ELSE Len(s)

\* the number of power-ups the loop "Add Powerups" pushes: it runs i from
\* config.obstacles while i < emptySpots.length
PowerUpsMade(config, s) ==
    IF config.obstacles < Len(s) THEN Len(s) - config.obstacles ELSE 0

\* newObstacles after its loop, axes being the draws of Math.random
newObstacles(config, s, axes) ==
    [i \in 1..ObstaclesMade(config, s) |->
        NewObstacle(i - 1, s[i], config, axes[i])]

\* newPowerUps after its loop, types being the draws of Math.random
newPowerUps(config, s, types) ==
    [j \in 1..PowerUpsMade(config, s) |->
        NewPowerUp(config.obstacles + j - 1, s[config.obstacles + j],
                   types[j])]

\* startLevel(index) when generateMaze returns m and findEmptySpots returns
\* k spots: the spots are sampled and the state is set from the maze and
\* them.  The obstacles loop breaks at the first index without a spot.
\* lives, pulveriseCooldown, invulnerableRef and the pending timeouts are
\* not written.
startLevelOn(m, index, k) ==
    LET config == LevelConfig(index)
        size == LevelSize(index)
    IN  /\ isPaused' = FALSE
        /\ ~m.spin
        /\ grid' = m.grid
        /\ carved' = m.carved
        /\ start' = m.start
        /\ end' = m.end
        /\ width' = size
        /\ height' = size
        /\ stack' = <<>>
        /\ pc' = "done"
        /\ playerPos' = AsPosition(start')
        /\ optimalPath' = <<>>
        /\ playerRotation' = StartRotation(grid', start')
        /\ count' = config.obstacles + 2
        /\ excludeNearStart' = TRUE
        /\ spots' = findEmptySpots(grid', k, TRUE,
                                   SessionDraws(grid', start', end'), 1, <<>>)
        /\ Len(spots') = k
        /\ attempts' = 0
        /\ iterations' = 0
        /\ spPc' = "returned"
        /\ \E axes \in [1..ObstaclesMade(config, spots') -> AxisDraws] :
              obstacles' = newObstacles(config, spots', axes)
        /\ \E types \in [1..PowerUpsMade(config, spots') -> TypeDraws] :
              powerUps' = newPowerUps(config, spots', types)
        /\ canPulverise' = FALSE
        /\ levelIndex' = index
        /\ phase' = "MEMORIZE"
        /\ timer' = MEMORIZE_TIME
        /\ UNCHANGED <<origin, pathVars, probeVars, pulveriseCooldown,
                       invulnerable, hitTimeouts, revealTimeouts>>

\* startLevel(index) with the maze of a session, when findEmptySpots returns
\* k spots
startLevelSampled(index, k) ==
    LET m == generateMaze(LevelSize(index), LevelSize(index))
    IN  startLevelOn(m, index, k)

\* startLevel(index): the while loop of findEmptySpots, whose attempts stays
\* 0, ends only with the count it was asked for, config.obstacles + 2.
startLevel(index) ==
    startLevelSampled(index, LevelConfig(index).obstacles + 2)

\* INITIATE on the menu: setLives(3); startLevel(0)
Initiate ==
    /\ phase = "MENU"
    /\ lives' = 3
    /\ startLevel(0)

\* PROCEED NEXT on the level-complete screen: startLevel(levelIndex + 1)
ProceedNext ==
    /\ phase = "LEVEL_COMPLETE"
    /\ levelIndex < MaxLevel
    /\ startLevel(levelIndex + 1)
    /\ UNCHANGED lives

\* the countdown's updater with prev <= 0 for its test
CountdownTickLate ==
    /\ ~isPaused
    /\ phase \in {"MEMORIZE", "MAP_PEEK"}
    /\ IF timer <= 0
         THEN phase' = "PLAYING" /\ timer' = 0
         ELSE phase' = phase /\ timer' = timer - 1
    /\ UNCHANGED <<mazeVars, origin, pathVars, spotVars, probeVars, levelIndex,
                   lives, isPaused, canPulverise, pulveriseCooldown,
                   optimalPath, obstacles, powerUps, playerPos, playerRotation,
                   invulnerable, hitTimeouts, revealTimeouts>>

\* The callback of the countdown's interval, which runs while the session is
\* not paused and the phase is MEMORIZE or MAP_PEEK.
CountdownTick ==
    /\ ~isPaused
    /\ phase \in {"MEMORIZE", "MAP_PEEK"}
    /\ IF timer <= 1
         THEN phase' = "PLAYING" /\ timer' = 0
         ELSE phase' = phase /\ timer' = timer - 1
    /\ UNCHANGED <<mazeVars, origin, pathVars, spotVars, probeVars, levelIndex,
                   lives, isPaused, canPulverise, pulveriseCooldown,
                   optimalPath, obstacles, powerUps, playerPos, playerRotation,
                   invulnerable, hitTimeouts, revealTimeouts>>

\* SKIP TIMER shown in every phase but PLAYING
SkipTimerAnyPhase ==
    /\ phase # "PLAYING"
    /\ phase' = "PLAYING"
    /\ UNCHANGED <<mazeVars, origin, pathVars, spotVars, probeVars, levelIndex,
                   lives, timer, isPaused, canPulverise, pulveriseCooldown,
                   optimalPath, obstacles, powerUps, playerPos, playerRotation,
                   invulnerable, hitTimeouts, revealTimeouts>>

\* SKIP TIMER, shown in MEMORIZE: setPhase(PLAYING)
SkipTimer ==
    /\ phase = "MEMORIZE"
    /\ phase' = "PLAYING"
    /\ UNCHANGED <<mazeVars, origin, pathVars, spotVars, probeVars, levelIndex,
                   lives, timer, isPaused, canPulverise, pulveriseCooldown,
                   optimalPath, obstacles, powerUps, playerPos, playerRotation,
                   invulnerable, hitTimeouts, revealTimeouts>>

\* the updater with the second test made from the x before the move
ResolveMoveFromPrev(prev, dx, dz, map) ==
    LET nextX == prev.x + dx
        nextZ == prev.z + dz
        newX == IF ~checkWallCollision(nextX, prev.z, map) THEN nextX ELSE prev.x
        newZ == IF ~checkWallCollision(prev.x, nextZ, map) THEN nextZ ELSE prev.z
    IN  [x |-> newX, z |-> newZ]

\* the updater with the move along z made without its test
ResolveMoveUntested(prev, dx, dz, map) ==
    LET nextX == prev.x + dx
        nextZ == prev.z + dz
        newX == IF ~checkWallCollision(nextX, prev.z, map) THEN nextX ELSE prev.x
    IN  [x |-> newX, z |-> nextZ]

\* the updater given to setPlayerPos
ResolveMove(prev, dx, dz, map) ==
    LET nextX == prev.x + dx
        nextZ == prev.z + dz
        newX == IF ~checkWallCollision(nextX, prev.z, map) THEN nextX ELSE prev.x
        newZ == IF ~checkWallCollision(newX, nextZ, map) THEN nextZ ELSE prev.z
    IN  [x |-> newX, z |-> newZ]

\* const dx, const dz: forward = moveY and strafe = moveX, already times
\* PLAYER_SPEED * deltaTime, turned by the heading
MoveDx(forward, strafe, rot) == forward * Sin(rot) + strafe * Cos(rot)
MoveDz(forward, strafe, rot) == forward * Cos(rot) - strafe * Sin(rot)

\* obsX, obsZ: where the obstacle is in this frame, off being its
\* Math.sin(t * speed) * range
LivePosition(obs, off) ==
    IF obs.type = "PATROL_ENEMY"
      THEN IF obs.axis = "x" THEN [x |-> 10 * obs.x + off, z |-> 10 * obs.z]
           ELSE [x |-> 10 * obs.x, z |-> 10 * obs.z + off]
      ELSE [x |-> 10 * obs.x, z |-> 10 * obs.z]

\* dist < PULVERISE_RADIUS, on the square of the distance
InPulveriseRange(d2) == d2 < PULVERISE_RADIUS * PULVERISE_RADIUS

\* dist < PLAYER_RADIUS + 0.35, on the square of the distance in hundredths
InHitRange(d2) == 100 * d2 < (10 * PLAYER_RADIUS + 35) * (10 * PLAYER_RADIUS + 35)

\* the test made with the width of a cell for the distance
InReachOfCell(d2) == d2 < 100

\* dist < 0.5, on the square of the distance
InReach(d2) == d2 < 25

\* handleHit that leaves the flag to be set later
handleHitLate(f) == [f EXCEPT !.hits = @ + 1]

\* handleHit within a frame f = [nearbyEnemy, invulnerable, hits]: the flag
\* is set at once; the updater given to setLives and the timeout are counted
\* in hits.
handleHit(f) == [f EXCEPT !.invulnerable = TRUE, !.hits = @ + 1]

\* obstacles.forEach from index i on
RECURSIVE forEachObstacle(_, _, _, _, _)
forEachObstacle(obs, offs, pos, i, f) ==
    IF i > Len(obs) THEN f
    ELSE LET live == LivePosition(obs[i], offs[i])
             d2 == Dist2(live.x, live.z, pos.x, pos.z)
             near == [f EXCEPT !.nearbyEnemy = @ \/ InPulveriseRange(d2)]
         IN  forEachObstacle(obs, offs, pos, i + 1,
                             IF InHitRange(d2) /\ ~near.invulnerable
                               THEN handleHit(near) ELSE near)

\* the power-ups that powerUps.forEach collects
Collected(pups, pos) ==
    {i \in 1..Len(pups) :
        /\ ~pups[i].collected
        /\ InReach(Dist2(10 * pups[i].x, 10 * pups[i].z, pos.x, pos.z))}

\* the updater that takes the collected power-ups out of the array
MarkedOut(pups, got) ==
    LET kept[i \in 0..Len(pups)] ==
            IF i = 0 THEN <<>>
            ELSE IF i \in got THEN kept[i - 1] ELSE Append(kept[i - 1], pups[i])
    IN  kept[Len(pups)]

\* the updaters collectPowerUp gives to setPowerUps, one for each power-up of
\* got: prev.map(pu => pu.id === p.id ? { ...pu, collected: true } : pu)
Marked(pups, got) ==
    [i \in 1..Len(pups) |->
        IF i \in got THEN [pups[i] EXCEPT !.collected = TRUE] ELSE pups[i]]

\* the test update returns on, early, turned round: whether the frames run,
\* taken with the pause flag left out
RunningPaused == phase = "PLAYING"

\* the test update returns on, early, turned round: whether the frames run
Running == phase = "PLAYING" /\ ~isPaused

\* update(time) while the phase is PLAYING and the session is not paused,
\* between two renders: playerPos, playerRotation, obstacles, powerUps and
\* pulveriseCooldown are those of the last render.  The state set in the
\* frame is committed by the render that follows it.  The updaters given to
\* setLives run in the order they were given: the hits, then the extra lives.
\* A fatal hit and a win in one frame give setPhase(GAME_OVER) from inside the
\* updater and setPhase(LEVEL_COMPLETE) from update: the updater runs at the
\* render, after update, when state was set before it in the frame; with
\* nothing set before it, it may run at once, before the win test, or at the
\* render.
update(forward, strafe, turn, offs, eager) ==
    /\ Running
    /\ playerRotation' = IF turn # 0 THEN (playerRotation - turn) % 4
                         ELSE playerRotation
    /\ playerPos' = IF forward # 0 \/ strafe # 0
                      THEN ResolveMove(playerPos,
                                       MoveDx(forward, strafe, playerRotation),
                                       MoveDz(forward, strafe, playerRotation),
                                       grid)
                      ELSE playerPos
    /\ LET f == forEachObstacle(obstacles, offs, playerPos, 1,
                                [nearbyEnemy |-> FALSE,
                                 invulnerable |-> invulnerable, hits |-> 0])
           got == Collected(powerUps, playerPos)
           extra == {i \in got : powerUps[i].type = "EXTRA_LIFE"}
           reveal == {i \in got : powerUps[i].type = "MAP_REVEAL"}
           fatal == f.hits > 0 /\ lives - f.hits <= 0
           win == InReach(Dist2(10 * end.x, 10 * end.z, playerPos.x, playerPos.z))
           deferred == turn # 0 \/ forward # 0 \/ strafe # 0
       IN  /\ revealTimeouts + Cardinality(reveal) <= MaxTimeouts
           /\ invulnerable' = f.invulnerable
           /\ hitTimeouts' = hitTimeouts + f.hits
           /\ lives' = lives - f.hits + Cardinality(extra)
           /\ canPulverise' = (f.nearbyEnemy /\ pulveriseCooldown = 0)
           /\ powerUps' = Marked(powerUps, got)
           /\ optimalPath' = IF reveal # {}
                               THEN findShortestPath(grid, playerPos,
                                                     AsPosition(end))
                               ELSE optimalPath
           /\ revealTimeouts' = revealTimeouts + Cardinality(reveal)
           /\ phase' = IF fatal /\ win
                         THEN IF eager /\ ~deferred THEN "LEVEL_COMPLETE"
                              ELSE "GAME_OVER"
                       ELSE IF fatal THEN "GAME_OVER"
                       ELSE IF win THEN "LEVEL_COMPLETE"
                       ELSE "PLAYING"
    /\ UNCHANGED <<mazeVars, origin, pathVars, spotVars, probeVars, levelIndex,
                   timer, isPaused, pulveriseCooldown, obstacles>>

\* update(time) run twice from one render, with the sticks at rest.  update
\* ends by requesting the next frame for itself, the function of the render
\* it was made in; the render that follows the state it set replaces that
\* request (the effect's cleanup cancels it and the effect requests a frame
\* for the new function) only once it has committed.  When the next frame
\* comes before that, update runs again on the state of the same render:
\* powerUps, playerPos and lives are as the first run read them, and the
\* updaters of the two runs are applied one after the other at the render.
\* invulnerableRef is a ref: the second run reads what the first run wrote.
updateTwice(offs, eager) ==
    /\ Running
    /\ LET first == forEachObstacle(obstacles, offs, playerPos, 1,
                                    [nearbyEnemy |-> FALSE,
                                     invulnerable |-> invulnerable, hits |-> 0])
           f == forEachObstacle(obstacles, offs, playerPos, 1,
                                [nearbyEnemy |-> FALSE,
                                 invulnerable |-> first.invulnerable,
                                 hits |-> first.hits])
           got == Collected(powerUps, playerPos)
           extra == {i \in got : powerUps[i].type = "EXTRA_LIFE"}
           reveal == {i \in got : powerUps[i].type = "MAP_REVEAL"}
           fatal == f.hits > 0 /\ lives - f.hits <= 0
           win == InReach(Dist2(10 * end.x, 10 * end.z, playerPos.x, playerPos.z))
       IN  /\ revealTimeouts + 2 * Cardinality(reveal) <= MaxTimeouts
           /\ invulnerable' = f.invulnerable
           /\ hitTimeouts' = hitTimeouts + f.hits
           /\ lives' = lives - f.hits + 2 * Cardinality(extra)
           /\ canPulverise' = (f.nearbyEnemy /\ pulveriseCooldown = 0)
           /\ powerUps' = Marked(Marked(powerUps, got), got)
           /\ optimalPath' = IF reveal # {}
                               THEN findShortestPath(grid, playerPos,
                                                     AsPosition(end))
                               ELSE optimalPath
           /\ revealTimeouts' = revealTimeouts + 2 * Cardinality(reveal)
           /\ phase' = IF fatal /\ win
                         THEN IF eager THEN "LEVEL_COMPLETE" ELSE "GAME_OVER"
                       ELSE IF fatal THEN "GAME_OVER"
                       ELSE IF win THEN "LEVEL_COMPLETE"
                       ELSE "PLAYING"
    /\ UNCHANGED <<mazeVars, origin, pathVars, spotVars, probeVars, levelIndex,
                   timer, isPaused, pulveriseCooldown, obstacles, playerPos,
                   playerRotation>>

\* the offsets a frame can find the obstacles at: a patrol anywhere in
\* PatrolOffsets, a spike at 0
Offsets(obs) ==
    {offs \in [1..Len(obs) -> PatrolOffsets] :
        \A i \in 1..Len(obs) : obs[i].type # "PATROL_ENEMY" => offs[i] = 0}

\* whether the updater of a fatal hit runs at once: a choice only where a hit
\* can be fatal
EagerDraws == IF lives <= 1 THEN BOOLEAN ELSE {FALSE}

\* A frame of the session: update with what it reads from the joysticks and
\* the clock.
Tick ==
    \E forward \in Travels, strafe \in Travels, turn \in Turns,
       offs \in Offsets(obstacles), eager \in EagerDraws :
       update(forward, strafe, turn, offs, eager)

\* the timeout set by handleHit runs: invulnerableRef.current = false
InvulnExpire ==
    /\ hitTimeouts > 0
    /\ invulnerable' = FALSE
    /\ hitTimeouts' = hitTimeouts - 1
    /\ UNCHANGED <<mazeVars, origin, pathVars, spotVars, probeVars, phase,
                   levelIndex, lives, timer, isPaused, canPulverise,
                   pulveriseCooldown, optimalPath, obstacles, powerUps,
                   playerPos, playerRotation, revealTimeouts>>

\* the timeout set by collectPowerUp runs: setOptimalPath([])
RevealExpire ==
    /\ revealTimeouts > 0
    /\ optimalPath' = <<>>
    /\ revealTimeouts' = revealTimeouts - 1
    /\ UNCHANGED <<mazeVars, origin, pathVars, spotVars, probeVars, phase,
                   levelIndex, lives, timer, isPaused, canPulverise,
                   pulveriseCooldown, obstacles, powerUps, playerPos,
                   playerRotation, invulnerable, hitTimeouts>>

\* REBOOT SYSTEM on the game-over screen: setPhase(MENU)
Reboot ==
    /\ phase = "GAME_OVER"
    /\ phase' = "MENU"
    /\ UNCHANGED <<mazeVars, origin, pathVars, spotVars, probeVars, levelIndex,
                   lives, timer, isPaused, canPulverise, pulveriseCooldown,
                   optimalPath, obstacles, powerUps, playerPos, playerRotation,
                   invulnerable, hitTimeouts, revealTimeouts>>

\* A level whose power-ups are all drawn EXTRA_LIFE and whose obstacles are
\* all drawn the axis z
PlainLevel ==
    /\ \A i \in 1..Len(powerUps') : powerUps'[i].type = "EXTRA_LIFE"
    /\ \A i \in 1..Len(obstacles') : obstacles'[i].axis = "z"

InitiatePlain == Initiate /\ PlainLevel

ProceedNextPlain == ProceedNext /\ PlainLevel

\* A session of the first level: the menu, the level's start, its countdown
\* and its frames, with every travel and turn a frame can read.
InitMove == InitSession

NextMove ==
    \/ InitiatePlain
    \/ CountdownTick
    \/ SkipTimer
    \/ Tick

SpecMove == InitMove /\ [][NextMove]_vars

\* A frame of a session that is played without turning and along one axis at
\* a time.
StraightTick ==
    \E forward \in Travels, strafe \in Travels,
       offs \in Offsets(obstacles), eager \in EagerDraws :
       /\ forward = 0 \/ strafe = 0
       /\ update(forward, strafe, 0, offs, eager)

\* A session through the levels up to MaxLevel, where the obstacles are.
InitHit == InitSession

NextHit ==
    \/ InitiatePlain
    \/ CountdownTick
    \/ SkipTimer
    \/ StraightTick
    \/ InvulnExpire
    \/ ProceedNextPlain
    \/ Reboot

SpecHit == InitHit /\ [][NextHit]_vars

\* ABORT SCAN, shown in MAP_PEEK: setPhase(PLAYING)
AbortScan ==
    /\ phase = "MAP_PEEK"
    /\ phase' = "PLAYING"
    /\ UNCHANGED <<mazeVars, origin, pathVars, spotVars, probeVars, levelIndex,
                   lives, timer, isPaused, canPulverise, pulveriseCooldown,
                   optimalPath, obstacles, powerUps, playerPos, playerRotation,
                   invulnerable, hitTimeouts, revealTimeouts>>

\* the Pause button, shown in PLAYING and MAP_PEEK, under the pause overlay
\* once the session is paused: setIsPaused(true)
Pause ==
    /\ phase \in {"PLAYING", "MAP_PEEK"}
    /\ ~isPaused
    /\ isPaused' = TRUE
    /\ UNCHANGED <<mazeVars, origin, pathVars, spotVars, probeVars, phase,
                   levelIndex, lives, timer, canPulverise, pulveriseCooldown,
                   optimalPath, obstacles, powerUps, playerPos, playerRotation,
                   invulnerable, hitTimeouts, revealTimeouts>>

\* RESUME on the pause overlay: setIsPaused(false)
Resume ==
    /\ isPaused
    /\ isPaused' = FALSE
    /\ UNCHANGED <<mazeVars, origin, pathVars, spotVars, probeVars, phase,
                   levelIndex, lives, timer, canPulverise, pulveriseCooldown,
                   optimalPath, obstacles, powerUps, playerPos, playerRotation,
                   invulnerable, hitTimeouts, revealTimeouts>>

\* the restart going on to the level after
handleRestartLevelNext ==
    /\ isPaused
    /\ startLevel(levelIndex + 1)
    /\ UNCHANGED lives

\* RESTART SECTOR on the pause overlay: startLevel(levelIndex)
handleRestartLevel ==
    /\ isPaused
    /\ startLevel(levelIndex)
    /\ UNCHANGED lives

\* the interval of the cooldown effect stopping above 0
CooldownTickShort ==
    /\ ~isPaused
    /\ pulveriseCooldown > 1
    /\ pulveriseCooldown' = pulveriseCooldown - 1
    /\ UNCHANGED <<mazeVars, origin, pathVars, spotVars, probeVars, phase,
                   levelIndex, lives, timer, isPaused, canPulverise,
                   optimalPath, obstacles, powerUps, playerPos, playerRotation,
                   invulnerable, hitTimeouts, revealTimeouts>>

\* the interval of the cooldown effect, set while the session is not paused
\* and the cooldown is not 0, in any phase: c => Math.max(0, c - 1)
CooldownTick ==
    /\ ~isPaused
    /\ pulveriseCooldown > 0
    /\ pulveriseCooldown' = IF pulveriseCooldown - 1 > 0
                              THEN pulveriseCooldown - 1 ELSE 0
    /\ UNCHANGED <<mazeVars, origin, pathVars, spotVars, probeVars, phase,
                   levelIndex, lives, timer, isPaused, canPulverise,
                   optimalPath, obstacles, powerUps, playerPos, playerRotation,
                   invulnerable, hitTimeouts, revealTimeouts>>

\* the travel of a walking frame, in tenths
Stride == CHOOSE t \in Travels : t > 0

\* pos lies between the centres of the cells a and b, next to each other, and
\* not on the centre of b
OnLeg(pos, a, b) ==
    /\ pos # AsPosition(b)
    /\ \/ /\ a.z = b.z
          /\ pos.z = 10 * a.z
          /\ \/ 10 * a.x <= pos.x /\ pos.x <= 10 * b.x
             \/ 10 * b.x <= pos.x /\ pos.x <= 10 * a.x
       \/ /\ a.x = b.x
          /\ pos.x = 10 * a.x
          /\ \/ 10 * a.z <= pos.z /\ pos.z <= 10 * b.z
             \/ 10 * b.z <= pos.z /\ pos.z <= 10 * a.z

\* route is the path from START to END of the level's maze: the mazes of a
\* session differ in their END
Planned ==
    /\ asked
    /\ qStart = AsPosition(start)
    /\ qEnd = AsPosition(end)

\* findShortestPath(grid, startPos, endPos), asked once the level is made
PlanWalk ==
    /\ phase \in {"MEMORIZE", "PLAYING"}
    /\ ~Planned
    /\ asked' = TRUE
    /\ qStart' = AsPosition(start)
    /\ qEnd' = AsPosition(end)
    /\ route' = findShortestPath(grid, AsPosition(start), AsPosition(end))
    /\ UNCHANGED <<mazeVars, origin, spotVars, probeVars, gameVars>>

\* the stick is held towards the next cell of the path findShortestPath
\* returned
TowardsNext(forward, strafe) ==
    /\ Planned
    /\ \E i \in 1..(Len(route) - 1) :
          /\ OnLeg(playerPos, route[i], route[i + 1])
          /\ MoveDx(forward, strafe, playerRotation)
                = Stride * (route[i + 1].x - route[i].x)
          /\ MoveDz(forward, strafe, playerRotation)
                = Stride * (route[i + 1].z - route[i].z)

\* A frame of a player who is walked from START to END along the path
\* findShortestPath returned: update with the stick held towards the next
\* cell of the path.
WalkTick ==
    /\ Running
    /\ \E forward \in Travels, strafe \in Travels :
          /\ TowardsNext(forward, strafe)
          /\ \E offs \in Offsets(obstacles), eager \in EagerDraws :
                update(forward, strafe, 0, offs, eager)

\* A frame with the sticks at rest
RestTick ==
    \E offs \in Offsets(obstacles), eager \in EagerDraws :
       update(0, 0, 0, offs, eager)

\* A session through the levels up to MaxLevel whose player is walked along
\* the path from START to END, resting at will.  The countdown's interval
\* fires as long as it is set, and the walk goes on as long as the frames run.
InitWalk == InitSession

NextWalk ==
    \/ InitiatePlain
    \/ PlanWalk
    \/ CountdownTick
    \/ SkipTimer
    \/ WalkTick
    \/ RestTick
    \/ InvulnExpire
    \/ ProceedNextPlain
    \/ Reboot

SpecWalk ==
    /\ InitWalk
    /\ [][NextWalk]_vars
    /\ WF_vars(CountdownTick)
    /\ WF_vars(WalkTick)

\* Bound of the levels of a session in which obstacles are cleared: levels
\* 0 .. MaxClearLevel, the patrols being on level 2 and after.
MaxClearLevel == 2

\* PROCEED NEXT on the level-complete screen, up to the level MaxClearLevel
ProceedFurther ==
    /\ phase = "LEVEL_COMPLETE"
    /\ levelIndex < MaxClearLevel
    /\ startLevel(levelIndex + 1)
    /\ PlainLevel
    /\ UNCHANGED lives

\* return dist > PULVERISE_RADIUS, on the square of the distance
OutOfPulveriseRange(d2) == d2 > PULVERISE_RADIUS * PULVERISE_RADIUS

\* prev.filter(...): the obstacles the filter keeps, offs being their
\* Math.sin(t * speed) * range at the time of the call
Survivors(obs, offs, pos) ==
    LET kept[i \in 0..Len(obs)] ==
            IF i = 0 THEN <<>>
            ELSE LET live == LivePosition(obs[i], offs[i])
                 IN  IF OutOfPulveriseRange(Dist2(live.x, live.z, pos.x, pos.z))
                       THEN Append(kept[i - 1], obs[i])
                       ELSE kept[i - 1]
    IN  kept[Len(obs)]

\* handlePulverise that leaves canPulverise as it is
handlePulveriseStillReady(offs) ==
    IF ~canPulverise THEN UNCHANGED vars
    ELSE /\ obstacles' = Survivors(obstacles, offs, playerPos)
         /\ pulveriseCooldown' = 3
         /\ UNCHANGED <<mazeVars, origin, pathVars, spotVars, probeVars, phase,
                        levelIndex, lives, timer, isPaused, canPulverise,
                        optimalPath, powerUps, playerPos, playerRotation,
                        invulnerable, hitTimeouts, revealTimeouts>>

\* handlePulverise without its first statement, the return on !canPulverise
handlePulveriseUnguarded(offs) ==
    /\ obstacles' = Survivors(obstacles, offs, playerPos)
    /\ pulveriseCooldown' = 3
    /\ canPulverise' = FALSE
    /\ UNCHANGED <<mazeVars, origin, pathVars, spotVars, probeVars, phase,
                   levelIndex, lives, timer, isPaused, optimalPath,
                   powerUps, playerPos, playerRotation, invulnerable,
                   hitTimeouts, revealTimeouts>>

\* handlePulverise, called between two renders: canPulverise and playerPos
\* are those of the last render, and t is read from the clock at the call.
handlePulverise(offs) ==
    IF ~canPulverise THEN UNCHANGED vars
    ELSE /\ obstacles' = Survivors(obstacles, offs, playerPos)
         /\ pulveriseCooldown' = 3
         /\ canPulverise' = FALSE
         /\ UNCHANGED <<mazeVars, origin, pathVars, spotVars, probeVars, phase,
                        levelIndex, lives, timer, isPaused, optimalPath,
                        powerUps, playerPos, playerRotation, invulnerable,
                        hitTimeouts, revealTimeouts>>

\* The pulverise button, shown in PLAYING under the pause overlay: onClick
Pulverise ==
    /\ phase = "PLAYING"
    /\ ~isPaused
    /\ \E offs \in Offsets(obstacles) : handlePulverise(offs)

\* A session through the levels up to MaxClearLevel whose player is walked
\* along the path from START to END, resting and clearing obstacles at will.
InitClear == InitSession

NextClear ==
    \/ InitiatePlain
    \/ PlanWalk
    \/ CountdownTick
    \/ WalkTick
    \/ RestTick
    \/ InvulnExpire
    \/ Pulverise
    \/ CooldownTick
    \/ ProceedFurther
    \/ Reboot

SpecClear == InitClear /\ [][NextClear]_vars

\* update(time) in any phase: it returns early, having set only the time of
\* the last frame, unless the frames run
frame(forward, strafe, turn, offs, eager) ==
    IF ~Running THEN UNCHANGED vars
    ELSE update(forward, strafe, turn, offs, eager)

\* A frame of a session, in any phase, with the sticks at rest or held
\* towards the next cell of the path
Frame ==
    \E forward \in Travels, strafe \in Travels :
       /\ (forward = 0 /\ strafe = 0) \/ TowardsNext(forward, strafe)
       /\ \E offs \in Offsets(obstacles), eager \in EagerDraws :
             frame(forward, strafe, 0, offs, eager)

\* A level whose first power-up is drawn MAP_REVEAL and whose second
\* EXTRA_LIFE, and whose obstacles are all drawn the axis z
RevealLevel ==
    /\ \A i \in 1..Len(powerUps') :
          powerUps'[i].type = IF i = 1 THEN "MAP_REVEAL" ELSE "EXTRA_LIFE"
    /\ \A i \in 1..Len(obstacles') : obstacles'[i].axis = "z"

\* Bound of the lives a session is restarted with: a restart puts the level's
\* power-ups back, so the lives of a session have no bound of their own.
MaxLives == 4

\* RESTART SECTOR pressed with no more than MaxLives lives
RestartSector ==
    /\ lives <= MaxLives
    /\ handleRestartLevel
    /\ PlainLevel

\* A session through the levels up to MaxLevel with the buttons that change
\* the phase or pause the session, the countdown and the frames.
InitPause == InitSession

NextPause ==
    \/ InitiatePlain
    \/ PlanWalk
    \/ CountdownTick
    \/ SkipTimer
    \/ Frame
    \/ InvulnExpire
    \/ Pause
    \/ Resume
    \/ RestartSector
    \/ ProceedNextPlain
    \/ Reboot

SpecPause == InitPause /\ [][NextPause]_vars

\* The same sessions, the countdown's interval firing as long as it is set
FairPause == SpecPause /\ WF_vars(CountdownTick)

\* The same sessions, with the ability.
NextCarry ==
    \/ InitiatePlain
    \/ PlanWalk
    \/ CountdownTick
    \/ SkipTimer
    \/ Frame
    \/ InvulnExpire
    \/ Pause
    \/ Resume
    \/ RestartSector
    \/ ProceedNextPlain
    \/ Reboot
    \/ Pulverise

SpecCarry == InitPause /\ [][NextCarry]_vars

\* A session through the levels up to MaxLevel with all its timers: the
\* countdown, the cooldown and the two timeouts, and the pause.
InitFreeze == InitSession

NextFreeze ==
    \/ Initiate /\ RevealLevel
    \/ PlanWalk
    \/ CountdownTick
    \/ Frame
    \/ InvulnExpire
    \/ RevealExpire
    \/ Pulverise
    \/ CooldownTick
    \/ Pause
    \/ Resume
    \/ ProceedNext /\ RevealLevel
    \/ Reboot

SpecFreeze == InitFreeze /\ [][NextFreeze]_vars

\* The same sessions with a cooldown interval that fires if it is set again
\* and again (every change of the cooldown or of the pause sets a new one),
\* and a pause overlay whose RESUME is pressed.
FairFreeze == SpecFreeze /\ SF_vars(CooldownTick) /\ WF_vars(Resume)

\* moveX or moveY times PLAYER_SPEED * deltaTime of a stick held half over
\* during a tenth of a second, in tenths: half a stride, which takes the
\* player off the middle of a corridor, up to the walls
Shuffles == {-2, 0, 2}

\* A frame of a player who shuffles along one axis, or rests, without turning
ShuffleTick ==
    \E forward \in Shuffles, strafe \in Shuffles,
       offs \in Offsets(obstacles), eager \in EagerDraws :
       /\ forward = 0 \/ strafe = 0
       /\ update(forward, strafe, 0, offs, eager)

\* A session of the first level with power-ups of any type, the countdown,
\* the frames of a player who shuffles anywhere the walls allow, and the
\* timeouts of collectPowerUp.
InitReveal == InitSession

NextReveal ==
    \/ Initiate
    \/ CountdownTick
    \/ ShuffleTick
    \/ RevealExpire

SpecReveal == InitReveal /\ [][NextReveal]_vars

\* Two frames come between two renders, the sticks at rest.
StaleFrame ==
    \E offs \in Offsets(obstacles), eager \in EagerDraws :
       updateTwice(offs, eager)

\* The same sessions, with the frames that come before the render of the
\* frame before them has committed.
NextStale ==
    \/ Initiate
    \/ CountdownTick
    \/ ShuffleTick
    \/ StaleFrame
    \/ RevealExpire

SpecStale == InitReveal /\ [][NextStale]_vars

\* Bound of the sides generateMaze is called with when they are any numbers
\* from 2 on, even ones and ones below 5 included.  (With a side of 0 or 1
\* the grid has no cell (1, 1) for carve to write.)
MaxSide == 6

\* generateMaze(width, height) is called with any sides in 2 .. MaxSide.
InitAnySize ==
    /\ origin = "generated"
    /\ IdlePath
    /\ IdleSpots
    /\ IdleProbe
    /\ IdleGame
    /\ width \in 2..MaxSide
    /\ height \in 2..MaxSide
    /\ grid = WallGrid(width, height)
    /\ carved = {}
    /\ stack = <<>>
    /\ pc = "start"
    /\ start = [x |-> 1, z |-> 1]
    /\ end = [x |-> 1, z |-> 1]

SpecAnySize == InitAnySize /\ [][NextMaze]_vars

\* Bound of the level indexes startLevel is called with
MaxIndex == 60

\* startLevel(index) is entered, for any index in 0 .. MaxIndex: the inputs
\* are reset and nothing of the level is made yet.  The index is kept in
\* levelIndex, which the call ends by setting to it.
InitSize ==
    /\ origin = "generated"
    /\ IdlePath
    /\ IdleSpots
    /\ IdleProbe
    /\ phase = "MENU"
    /\ levelIndex \in 0..MaxIndex
    /\ lives = 3
    /\ timer = 0
    /\ isPaused = FALSE
    /\ canPulverise = FALSE
    /\ pulveriseCooldown = 0
    /\ optimalPath = <<>>
    /\ obstacles = <<>>
    /\ powerUps = <<>>
    /\ playerPos = [x |-> 10, z |-> 10]
    /\ playerRotation = 0
    /\ invulnerable = FALSE
    /\ hitTimeouts = 0
    /\ revealTimeouts = 0
    /\ width = 0
    /\ height = 0
    /\ grid = <<>>
    /\ carved = {}
    /\ stack = <<>>
    /\ pc = "idle"
    /\ start = [x |-> 1, z |-> 1]
    /\ end = [x |-> 1, z |-> 1]

\* startLevel up to its call of generateMaze: config and size are computed
\* from index and generateMaze(size, size) is entered; count is what
\* findEmptySpots is going to be asked for, config.obstacles + 2.
SizeLevel ==
    /\ pc = "idle"
    /\ width' = LevelSize(levelIndex)
    /\ height' = LevelSize(levelIndex)
    /\ count' = LevelConfig(levelIndex).obstacles + 2
    /\ pc' = "start"
    /\ UNCHANGED <<grid, carved, stack, start, end, origin, pathVars, spPc,
                   excludeNearStart, spots, attempts, iterations, probeVars,
                   gameVars>>

NextSize == SizeLevel

SpecSize == InitSize /\ [][NextSize]_vars

\* Bound of what a frame adds to the position along one axis, in tenths:
\* moveX or moveY times PLAYER_SPEED * deltaTime, deltaTime being the time
\* since the frame before, which update takes as it is.  A stick held fully
\* over during half a second gives 20.
MaxTravel == 20

\* what a frame adds along one axis: a tenth of a cell, a stride, or the most
Leaps == {-MaxTravel, -4, -1, 0, 1, 4, MaxTravel}

\* whether the position is on the grid, whose cells are the unit squares
\* around their integer coordinates
OnGrid(pos, w, h) ==
    /\ pos.x >= -5 /\ pos.x <= 10 * w - 5
    /\ pos.z >= -5 /\ pos.z <= 10 * h - 5

\* A frame of a player who moves by any of Leaps along each axis, without
\* turning; the frames are followed while the player is on the grid.
LeapTick ==
    /\ Running
    /\ OnGrid(playerPos, width, height)
    /\ \E forward \in Leaps, strafe \in Leaps,
          offs \in Offsets(obstacles), eager \in EagerDraws :
          update(forward, strafe, 0, offs, eager)

\* A session of the first level: the countdown skipped or not, and frames of
\* any duration.
NextLeap ==
    \/ InitiatePlain
    \/ SkipTimer
    \/ LeapTick

SpecLeap == InitSession /\ [][NextLeap]_vars

\* generateMaze(size, size) is called for the first level, with shuffle
\* free to return any order.
InitFace ==
    /\ InitMaze
    /\ width = LevelSize(0)
    /\ height = LevelSize(0)

\* INITIATE on the menu, generateMaze returning the maze the steps of carve
\* have made: setLives(3); startLevel(0)
InitiateOn ==
    /\ pc = "done"
    /\ phase = "MENU"
    /\ lives' = 3
    /\ startLevelOn([grid |-> grid, carved |-> carved, start |-> start,
                     end |-> end, spin |-> FALSE],
                    0, LevelConfig(0).obstacles + 2)

NextFace == CarveStart \/ CarveInto \/ CarveReturn \/ Finish \/ InitiateOn

SpecFace == InitFace /\ [][NextFace]_vars

\* Bound of the level indexes whose obstacles and power-ups are made
MaxBuildIndex == 2

\* startLevel(index) is entered, for any index in 0 .. MaxBuildIndex
InitBuild ==
    /\ origin = "generated"
    /\ IdlePath
    /\ IdleSpots
    /\ IdleProbe
    /\ phase = "MENU"
    /\ levelIndex \in 0..MaxBuildIndex
    /\ lives = 3
    /\ timer = 0
    /\ isPaused = FALSE
    /\ canPulverise = FALSE
    /\ pulveriseCooldown = 0
    /\ optimalPath = <<>>
    /\ obstacles = <<>>
    /\ powerUps = <<>>
    /\ playerPos = [x |-> 10, z |-> 10]
    /\ playerRotation = 0
    /\ invulnerable = FALSE
    /\ hitTimeouts = 0
    /\ revealTimeouts = 0
    /\ width = 0
    /\ height = 0
    /\ grid = <<>>
    /\ carved = {}
    /\ stack = <<>>
    /\ pc = "idle"
    /\ start = [x |-> 1, z |-> 1]
    /\ end = [x |-> 1, z |-> 1]

\* startLevel(levelIndex) with the array findEmptySpots returns taken as an
\* input of any length from 0 to the count asked for: the two loops run on
\* whatever array they are given.
BuildLevel ==
    /\ pc = "idle"
    /\ \E k \in 0..(LevelConfig(levelIndex).obstacles + 2) :
          startLevelSampled(levelIndex, k)
    /\ UNCHANGED lives

NextBuild == BuildLevel

SpecBuild == InitBuild /\ [][NextBuild]_vars

(***************************************************************************)
(* Properties of the grid generateMaze returns                             *)
(***************************************************************************)

Cells(g) == {<<x, z>> : x \in DOMAIN g[0], z \in DOMAIN g}

NonWall(g) == {c \in Cells(g) : g[c[2]][c[1]] # WALL}

\* 4-connected: one unit apart in exactly one axis
Adjacent(a, b) ==
    \/ a[1] = b[1] /\ (a[2] - b[2] = 1 \/ b[2] - a[2] = 1)
    \/ a[2] = b[2] /\ (a[1] - b[1] = 1 \/ b[1] - a[1] = 1)

\* the cells of S reachable from the cells of R by 4-connected steps inside S
RECURSIVE Grow(_, _)
Grow(R, S) ==
    LET more == {c \in S \ R : \E r \in R : Adjacent(r, c)}
    IN  IF more = {} THEN R ELSE Grow(R \cup more, S)

ReachableFrom(g, c) == IF c \in NonWall(g) THEN Grow({c}, NonWall(g)) ELSE {}

\* the number of 4-connected pairs of non-WALL cells, each counted once
CorridorCount(g) ==
    Cardinality({c \in NonWall(g) : <<c[1] + 1, c[2]>> \in NonWall(g)})
    + Cardinality({c \in NonWall(g) : <<c[1], c[2] + 1>> \in NonWall(g)})

Rooms(w, h) == {c \in (1..(w - 2)) \X (1..(h - 2)) : c[1] % 2 = 1 /\ c[2] % 2 = 1}

CellsOf(g, t) == {c \in Cells(g) : g[c[2]][c[1]] = t}

Border(w, h) ==
    {c \in (0..(w - 1)) \X (0..(h - 1)) :
        c[1] = 0 \/ c[1] = w - 1 \/ c[2] = 0 \/ c[2] = h - 1}

\* C1: in the grid generateMaze returns, every non-WALL cell (PATH, START,
\* END) is reachable from the START cell by 4-connected steps over non-WALL
\* cells, for every odd width and height from 5 up and every shuffle order.
C1_Connected ==
    pc = "done" =>
        /\ grid[1][1] = START
        /\ ReachableFrom(grid, <<1, 1>>) = NonWall(grid)

\* a returned maze in which some room opens on three or more sides: carve has
\* come back to a room and left it again in another direction
C1_Witness ==
    /\ pc = "done"
    /\ \E c \in NonWall(grid) :
          Cardinality({d \in NonWall(grid) : Adjacent(c, d)}) >= 3
    /\ Cardinality(NonWall(grid)) > 8

\* C2: the non-WALL cells of the returned grid form a tree (connected, with
\* one corridor fewer than cells, so exactly one simple route between any two
\* of them): every odd-coordinate room is carved and the number of non-WALL
\* cells is 2*R-1 for R = ((width-1)/2)*((height-1)/2) rooms.
C2_Tree ==
    pc = "done" =>
        LET R == ((width - 1) \div 2) * ((height - 1) \div 2) IN
        /\ Rooms(width, height) \subseteq NonWall(grid)
        /\ Cardinality(Rooms(width, height)) = R
        /\ Cardinality(NonWall(grid)) = 2 * R - 1
        /\ CorridorCount(grid) = Cardinality(NonWall(grid)) - 1
        /\ ReachableFrom(grid, <<width - 2, height - 2>>) = NonWall(grid)

\* a returned maze of unequal sides
C2_Witness ==
    /\ pc = "done"
    /\ width > height
    /\ Cardinality(NonWall(grid)) = 2 * Cardinality(Rooms(width, height)) - 1

\* C3: the returned grid has an all-WALL outer border, exactly one START
\* cell, which is (1,1), and exactly one END cell, which is
\* (width-2, height-2): the walk-back loop does not move; the returned start
\* and end are the marked cells.
C3_StartEnd ==
    pc = "done" =>
        /\ \A c \in Border(width, height) : grid[c[2]][c[1]] = WALL
        /\ CellsOf(grid, START) = {<<1, 1>>}
        /\ CellsOf(grid, END) = {<<width - 2, height - 2>>}
        /\ start = [x |-> 1, z |-> 1]
        /\ end = [x |-> width - 2, z |-> height - 2]

\* a returned maze of the largest size whose END room is a dead end
C3_Witness ==
    /\ pc = "done"
    /\ width = 2 * MaxRoomsX + 1
    /\ height = 2 * MaxRoomsZ + 1
    /\ grid[end.z][end.x] = END
    /\ Cardinality({d \in NonWall(grid) : Adjacent(<<end.x, end.z>>, d)}) = 1

(***************************************************************************)
(* Properties of findShortestPath                                          *)
(***************************************************************************)

CellOf(p) == <<Floor(p.x), Floor(p.z)>>

\* The number of steps of a shortest 4-connected route inside S from the
\* cells of frontier to b, n steps having been made; -1 when there is none.
RECURSIVE StepsFrom(_, _, _, _, _)
StepsFrom(frontier, seen, b, n, S) ==
    IF b \in frontier THEN n
    ELSE LET next == {c \in S \ seen : \E r \in frontier : Adjacent(r, c)}
         IN  IF next = {} THEN -1
             ELSE StepsFrom(next, seen \cup next, b, n + 1, S)

Distance(g, a, b) == StepsFrom({a}, {a}, b, 0, NonWall(g))

\* C4: for in-bounds non-WALL cells start and end, findShortestPath returns a
\* route over non-WALL cells from start to end whose step count is the
\* distance computed apart from it, and the empty sequence exactly when there
\* is no route; between START and END of a generated maze it is not empty.
C4_Shortest ==
    (asked /\ CellOf(qStart) \in NonWall(grid) /\ CellOf(qEnd) \in NonWall(grid)) =>
        LET d == Distance(grid, CellOf(qStart), CellOf(qEnd)) IN
        /\ route = <<>> <=> d = -1
        /\ route # <<>> =>
              /\ Len(route) = d + 1
              /\ <<route[1].x, route[1].z>> = CellOf(qStart)
              /\ <<route[Len(route)].x, route[Len(route)].z>> = CellOf(qEnd)
              /\ \A i \in 1..Len(route) : <<route[i].x, route[i].z>> \in NonWall(grid)
              /\ \A i \in 1..(Len(route) - 1) :
                    Adjacent(<<route[i].x, route[i].z>>, <<route[i + 1].x, route[i + 1].z>>)
        /\ (origin = "generated" /\ CellOf(qStart) = <<start.x, start.z>>) => route # <<>>

\* the route from START to END of a generated 7x7 maze that is longer than the
\* straight distance between them
C4_Witness ==
    /\ asked
    /\ origin = "generated"
    /\ width = 7 /\ height = 7
    /\ CellOf(qStart) = <<1, 1>>
    /\ CellOf(qEnd) = <<5, 5>>
    /\ Len(route) > 9

\* C5: every non-empty sequence findShortestPath returns begins with the
\* floored start cell, ends with the floored end cell, has each consecutive
\* pair of cells one unit apart in exactly one axis, and repeats no cell.
C5_WellFormed ==
    (asked /\ route # <<>>) =>
        /\ route[1] = [x |-> Floor(qStart.x), z |-> Floor(qStart.z)]
        /\ route[Len(route)] = [x |-> Floor(qEnd.x), z |-> Floor(qEnd.z)]
        /\ \A i \in 1..(Len(route) - 1) :
              \/ /\ route[i].x = route[i + 1].x
                 /\ (route[i].z - route[i + 1].z) \in {-1, 1}
              \/ /\ route[i].z = route[i + 1].z
                 /\ (route[i].x - route[i + 1].x) \in {-1, 1}
        /\ \A i, j \in 1..Len(route) : route[i] = route[j] => i = j

\* a route of several cells on a given grid between two positions that are
\* not whole numbers
C5_Witness ==
    /\ asked
    /\ origin = "given"
    /\ qStart.x % 10 # 0
    /\ qEnd.z % 10 # 0
    /\ Floor(qStart.x) # Floor(qEnd.x)
    /\ Len(route) >= 4

(***************************************************************************)
(* Properties of findEmptySpots                                            *)
(***************************************************************************)

\* the cells findEmptySpots may pick
Eligible(g, excl) ==
    {c \in Cells(g) : g[c[2]][c[1]] = PATH /\ ~(excl /\ c[1] < 4 /\ c[2] < 4)}

\* C6: findEmptySpots returns at most count cells (none when count = 0), no
\* two of them the same, each a PATH cell (not WALL, START or END), and with
\* excludeNearStart none of them with both x < 4 and z < 4.
C6_Spots ==
    spPc = "returned" =>
        /\ Len(spots) <= count
        /\ count = 0 => spots = <<>>
        /\ \A i, j \in 1..Len(spots) : spots[i] = spots[j] => i = j
        /\ \A i \in 1..Len(spots) :
              /\ spots[i].x \in DOMAIN grid[0]
              /\ spots[i].z \in DOMAIN grid
              /\ grid[spots[i].z][spots[i].x] = PATH
              /\ grid[spots[i].z][spots[i].x] \notin {WALL, START, END}
              /\ excludeNearStart => ~(spots[i].x < 4 /\ spots[i].z < 4)

\* two spots returned on a generated maze with the start block excluded, in
\* the same column
C6_Witness ==
    /\ spPc = "returned"
    /\ origin = "generated"
    /\ excludeNearStart
    /\ count = 2
    /\ Len(spots) = 2
    /\ spots[1].x = spots[2].x

\* C7 (as claimed): findEmptySpots always terminates: called on a grid with
\* fewer eligible PATH cells than count, it stops and returns the shorter
\* list instead of looping forever.
C7_Terminates ==
    [](  (spPc = "loop" /\ Cardinality(Eligible(grid, excludeNearStart)) < count)
         => <>(spPc = "returned"))

(***************************************************************************)
(* Properties of checkWallCollision                                        *)
(***************************************************************************)

\* Whether the player's box around (x, z), of half side 0.3, and the unit
\* square of some WALL cell of g share more than their edges.
HitsWall(x, z, g) ==
    \E c \in Cells(g) :
       /\ g[c[2]][c[1]] = WALL
       /\ x - 3 < 10 * c[1] + 5 /\ 10 * c[1] - 5 < x + 3
       /\ z - 3 < 10 * c[2] + 5 /\ 10 * c[2] - 5 < z + 3

\* C8: checkWallCollision(x, z, grid) is true exactly when some in-bounds
\* WALL cell's unit square strictly overlaps the player's box (the cell range
\* it runs over misses none); at the centre of a cell it is true for a WALL
\* cell and false for any other.
C8_Blocked ==
    probed =>
        /\ blocked <=> HitsWall(probeX, probeZ, grid)
        /\ \A c \in Cells(grid) :
              (probeX = 10 * c[1] /\ probeZ = 10 * c[2])
                  => (blocked <=> grid[c[2]][c[1]] = WALL)

\* a position inside a non-WALL cell of a generated maze, off its centre in
\* both axes, that is blocked
C8_Witness ==
    /\ probed
    /\ blocked
    /\ origin = "generated"
    /\ probeX % 10 # 0 /\ probeZ % 10 # 0
    /\ Floor(probeX + 5) \in DOMAIN grid[0]
    /\ Floor(probeZ + 5) \in DOMAIN grid
    /\ grid[Floor(probeZ + 5)][Floor(probeX + 5)] # WALL


(***************************************************************************)
(* Properties of the frames of a session                                   *)
(***************************************************************************)

\* where the claimed rule of axis-separated movement takes the player from
\* (px, pz) with the displacement (dx, dz) on grid g
SlideTarget(px, pz, dx, dz, g) ==
    LET nx == IF HitsWall(px + dx, pz, g) THEN px ELSE px + dx
        nz == IF HitsWall(nx, pz + dz, g) THEN pz ELSE pz + dz
    IN  [x |-> nx, z |-> nz]

\* C9: in a frame that moves the player by the displacement (dx, dz) from
\* (px, pz), the new x is px + dx when (px + dx, pz) is not blocked and px
\* otherwise, and the new z is pz + dz when (new x, pz + dz) is not blocked
\* and pz otherwise; so when the diagonal target is blocked and one axis
\* alone is clear, the player moves by the whole displacement along an open
\* axis.
C9_AxisSeparated ==
    [][\A forward \in Travels, strafe \in Travels, turn \in Turns,
          offs \in Offsets(obstacles), eager \in EagerDraws :
          update(forward, strafe, turn, offs, eager) =>
             LET px == playerPos.x
                 pz == playerPos.z
                 dx == MoveDx(forward, strafe, playerRotation)
                 dz == MoveDz(forward, strafe, playerRotation)
                 xClear == ~HitsWall(px + dx, pz, grid)
                 zClear == ~HitsWall(px, pz + dz, grid)
                 diagonal == HitsWall(px + dx, pz + dz, grid)
             IN  /\ playerPos' = SlideTarget(px, pz, dx, dz, grid)
                 /\ diagonal /\ xClear => playerPos' = [x |-> px + dx, z |-> pz]
                 /\ diagonal /\ ~xClear /\ zClear =>
                       playerPos' = [x |-> px, z |-> pz + dz]]_vars

\* C9 witness: the player has walked from START to a place where a diagonal
\* displacement is blocked while each of its axes alone is clear.
C9_Witness ==
    /\ phase = "PLAYING"
    /\ playerPos # AsPosition(start)
    /\ \E dx \in Travels \ {0}, dz \in Travels \ {0} :
          /\ HitsWall(playerPos.x + dx, playerPos.z + dz, grid)
          /\ ~HitsWall(playerPos.x + dx, playerPos.z, grid)
          /\ ~HitsWall(playerPos.x, playerPos.z + dz, grid)

\* the obstacles whose place, patrols taken at the middle, is within the hit
\* radius of the player
Touching ==
    {i \in 1..Len(obstacles) :
        InHitRange(Dist2(10 * obstacles[i].x, 10 * obstacles[i].z,
                         playerPos.x, playerPos.z))}

\* C10: between a hit and the expiry of the invulnerability it starts, lives
\* is decremented once: a step of a level takes lives down only by one, only
\* when the player is not invulnerable, and it starts the invulnerability;
\* while the player is invulnerable no frame takes lives down, whatever
\* touches the player, and the one timeout that is pending is the one of the
\* hit that started the invulnerability (none is left from an earlier hit to
\* end it early).
C10_OncePerWindow ==
    [][/\ hitTimeouts = (IF invulnerable THEN 1 ELSE 0)
       /\ (lives' < lives /\ phase # "MENU") =>
             /\ ~invulnerable
             /\ invulnerable'
             /\ hitTimeouts' = hitTimeouts + 1
             /\ lives' = lives - 1
       /\ (invulnerable /\ phase = "PLAYING") => lives' >= lives]_vars

\* C10 witness: the player has been hit and stands, invulnerable, within the
\* hit radius of two obstacles.
C10_Witness ==
    /\ phase = "PLAYING"
    /\ invulnerable
    /\ hitTimeouts = 1
    /\ Cardinality(Touching) >= 2

\* C11: a step in which a hit is applied, the phase being PLAYING and the
\* player not invulnerable, takes lives down by exactly one; from lives = 1 it
\* ends with lives = 0 in GAME_OVER, from more than one life it ends in
\* PLAYING.
C11_HitTakesOne ==
    [][ (phase = "PLAYING" /\ ~invulnerable /\ invulnerable') =>
            /\ lives' = lives - 1
            /\ (lives = 1 => lives' = 0 /\ phase' = "GAME_OVER")
            /\ (lives > 1 => phase' = "PLAYING") ]_vars

\* C12: lives is never negative, and it is zero only while the phase is
\* GAME_OVER or MENU; in MEMORIZE, PLAYING and LEVEL_COMPLETE there is a life
\* left, also after a frame in which a fatal hit and the win test both fire.
C12_LivesLeft ==
    /\ lives >= 0
    /\ (lives = 0 => phase \in {"GAME_OVER", "MENU"})

\* the player's centre is less than half a cell from the centre of END
NearEnd == Dist2(10 * end.x, 10 * end.z, playerPos.x, playerPos.z) < 5 * 5

\* a hit of this step takes the last life
LastLifeTaken == ~invulnerable /\ invulnerable' /\ lives <= 1

\* the walk on the 7x7 maze of the first level ends in LEVEL_COMPLETE
WalkCompletes ==
    (phase = "PLAYING" /\ levelIndex = 0 /\ Planned)
        ~> (phase = "LEVEL_COMPLETE")

\* C13 as stated: a frame that finds the player less than 0.5 from END ends
\* in LEVEL_COMPLETE, no other step enters LEVEL_COMPLETE, and the walk along
\* the path on the 7x7 maze ends in LEVEL_COMPLETE.
C13_WinCompletes ==
    /\ [][ (Tick /\ NearEnd) => phase' = "LEVEL_COMPLETE" ]_vars
    /\ [][ (phase # "LEVEL_COMPLETE" /\ phase' = "LEVEL_COMPLETE")
              => (Tick /\ NearEnd) ]_vars
    /\ WalkCompletes

\* C13, amended: a frame that finds the player less than 0.5 from END ends in
\* LEVEL_COMPLETE unless a hit of the same frame takes the last life, and then
\* it ends in GAME_OVER or LEVEL_COMPLETE; no other step enters
\* LEVEL_COMPLETE; the walk along the path on the 7x7 maze ends in
\* LEVEL_COMPLETE.
C13_WinUnlessFatal ==
    /\ [][ (Tick /\ NearEnd) =>
              IF LastLifeTaken
                THEN phase' \in {"GAME_OVER", "LEVEL_COMPLETE"}
                ELSE phase' = "LEVEL_COMPLETE" ]_vars
    /\ [][ (phase # "LEVEL_COMPLETE" /\ phase' = "LEVEL_COMPLETE")
              => (Tick /\ NearEnd) ]_vars
    /\ WalkCompletes

\* C13 witness: the first level, 7x7, is complete with the player walked to
\* less than 0.5 from END.
C13_Witness ==
    /\ phase = "LEVEL_COMPLETE"
    /\ levelIndex = 0
    /\ Cardinality(DOMAIN grid) = 7
    /\ NearEnd

\* the members of seq at the indexes in keep, in the order of seq
Pick(seq, keep) ==
    LET f[i \in 0..Len(seq)] ==
            IF i = 0 THEN <<>>
            ELSE IF i \in keep THEN Append(f[i - 1], seq[i]) ELSE f[i - 1]
    IN  f[Len(seq)]

\* the obstacles that, standing where offs puts them, are not within the
\* ability range of the player by the test that enables the ability
BeyondRange(offs) ==
    {i \in 1..Len(obstacles) :
        LET live == LivePosition(obstacles[i], offs[i])
        IN  ~InPulveriseRange(Dist2(live.x, live.z, playerPos.x, playerPos.z))}

\* C14: when the ability is triggered while enabled, the obstacles afterwards
\* are the obstacles before without those that, at their place at the time of
\* the trigger, are within the ability range of the player by the test that
\* enables the ability; the others are kept as they are, in their order, and
\* the cooldown becomes 3.
C14_ClearsInRange ==
    [][ \A offs \in Offsets(obstacles) :
            (phase = "PLAYING" /\ ~isPaused /\ canPulverise
                /\ handlePulverise(offs))
            => /\ obstacles' = Pick(obstacles, BeyondRange(offs))
               /\ pulveriseCooldown' = 3 ]_vars

\* C15: while the cooldown is above 0 the ability is not ready, whatever the
\* order of the frames, the cooldown's timer events and the triggers; and a
\* trigger while the ability is not ready leaves the obstacles and the
\* cooldown as they are.
C15_NotReadyWhileCooling ==
    /\ [](pulveriseCooldown > 0 => ~canPulverise)
    /\ [][ \A offs \in Offsets(obstacles) :
              (~canPulverise /\ handlePulverise(offs))
              => /\ obstacles' = obstacles
                 /\ pulveriseCooldown' = pulveriseCooldown ]_vars

\* C15 witness: a timer event has taken the cooldown down, it is not at 0
\* yet, and the player, in PLAYING, has an obstacle within the ability range.
C15_Witness ==
    /\ phase = "PLAYING"
    /\ pulveriseCooldown \in {1, 2}
    /\ ~canPulverise
    /\ \E i \in 1..Len(obstacles) :
          InPulveriseRange(Dist2(10 * obstacles[i].x, 10 * obstacles[i].z,
                                 playerPos.x, playerPos.z))

\* the changes of phase of the diagram
PhaseChanges ==
    {<<"MENU", "MEMORIZE">>, <<"MEMORIZE", "PLAYING">>,
     <<"PLAYING", "MAP_PEEK">>, <<"MAP_PEEK", "PLAYING">>,
     <<"PLAYING", "LEVEL_COMPLETE">>, <<"LEVEL_COMPLETE", "MEMORIZE">>,
     <<"PLAYING", "GAME_OVER">>, <<"GAME_OVER", "MENU">>}

\* C16: every step that changes the phase makes one of the changes of the
\* diagram, the start going to level 0 and the next level to the level after
\* this one, or is a restart of this level from the pause overlay into
\* MEMORIZE.
C16_PhaseChanges ==
    [][ phase' # phase =>
           \/ /\ <<phase, phase'>> \in PhaseChanges
              /\ phase = "MENU" => levelIndex' = 0
              /\ phase = "LEVEL_COMPLETE" => levelIndex' = levelIndex + 1
           \/ /\ isPaused
              /\ phase' = "MEMORIZE"
              /\ levelIndex' = levelIndex ]_vars

\* C16 witness: the first level is in MEMORIZE again with a life collected
\* before it was restarted.
C16_Witness ==
    /\ phase = "MEMORIZE"
    /\ levelIndex = 0
    /\ lives > 3

\* a step of the session, from a state where no level is being made, that
\* goes into MAP_PEEK
EntersPeek ==
    /\ phase' = "MAP_PEEK"
    /\ \/ Frame
       \/ Pulverise
       \/ Pause
       \/ Resume
       \/ CountdownTick
       \/ CooldownTick
       \/ InvulnExpire
       \/ RevealExpire
       \/ SkipTimer
       \/ AbortScan
       \/ Reboot

\* a step of the countdown or of ABORT SCAN that goes back into PLAYING
LeavesPeek ==
    /\ phase' = "PLAYING"
    /\ CountdownTick \/ AbortScan

\* C17: MAP_PEEK can be entered from PLAYING: while the session is in
\* PLAYING, not paused, it has a step into MAP_PEEK; and while it is in
\* MAP_PEEK it has a step of the countdown or of the abort back into PLAYING.
C17_PeekReachable ==
    /\ (phase = "PLAYING" /\ ~isPaused) => ENABLED EntersPeek
    /\ (phase = "MAP_PEEK" /\ ~isPaused) => ENABLED LeavesPeek

\* no state of a session is in MAP_PEEK
NeverPeek == phase # "MAP_PEEK"

\* C18: MEMORIZE is entered with the countdown at 10; the countdown is an
\* integer of 0..10, above 0 in MEMORIZE; in MEMORIZE it changes only while
\* the session is not paused and only by going down by one, the change from
\* 1 to 0 setting PLAYING and no other; the skip sets PLAYING; and with the
\* timer events firing every MEMORIZE leads to PLAYING.
C18_Countdown ==
    /\ [](timer \in 0..MEMORIZE_TIME)
    /\ [](phase = "MEMORIZE" => timer >= 1)
    /\ [][ (phase # "MEMORIZE" /\ phase' = "MEMORIZE")
              => timer' = MEMORIZE_TIME ]_vars
    /\ [][ (phase = "MEMORIZE" /\ timer' # timer) =>
              /\ ~isPaused
              /\ timer' = timer - 1
              /\ phase' = IF timer = 1 THEN "PLAYING" ELSE "MEMORIZE" ]_vars
    /\ [][ SkipTimer => phase' = "PLAYING" ]_vars
    /\ (phase = "MEMORIZE") ~> (phase = "PLAYING")

\* C18 witness: the countdown has run from 10 to 0 and the session is in
\* PLAYING at START.
C18_Witness ==
    /\ phase = "PLAYING"
    /\ timer = 0
    /\ playerPos = AsPosition(start)

\* what a frame is said to leave alone
Shown ==
    <<playerPos, playerRotation, lives, obstacles, powerUps, optimalPath,
      canPulverise, phase>>

\* a frame with anything the sticks and the clock can give it
AnyFrame ==
    \E forward \in Travels, strafe \in Travels, turn \in Turns,
       offs \in Offsets(obstacles), eager \in BOOLEAN :
       frame(forward, strafe, turn, offs, eager)

\* C19: while the phase is not PLAYING, or the session is paused, no frame
\* changes the player's position or heading, the lives, the obstacles, the
\* power-ups, the revealed path, the ability-ready flag or the phase.
C19_IdleFrame ==
    (phase # "PLAYING" \/ isPaused) => ~ENABLED (AnyFrame /\ Shown' # Shown)

\* C19 witness: the session is paused in PLAYING with the player within the
\* hit radius of an obstacle and not invulnerable, where a frame that ran
\* would take a life.
C19_Witness ==
    /\ phase = "PLAYING"
    /\ isPaused
    /\ ~invulnerable
    /\ Touching # {}

\* C20: while the session is paused no timer advances or fires: a step from
\* a paused state to a paused state leaves the countdown, the cooldown, the
\* invulnerability with its timeout and the revealed path with its timeout as
\* they are.
C20_TimersFrozen ==
    [][ (isPaused /\ isPaused') =>
            /\ timer' = timer
            /\ pulveriseCooldown' = pulveriseCooldown
            /\ invulnerable' = invulnerable
            /\ hitTimeouts' = hitTimeouts
            /\ optimalPath' = optimalPath
            /\ revealTimeouts' = revealTimeouts ]_vars

\* the obstacle count and the moving-obstacles flag of the table's last entry
LastConfig == [obstacles |-> 8, movingObstacles |-> TRUE]

\* C21: for every level index i the size startLevel gives generateMaze, for
\* the width and for the height, is odd and at least 7: 7 + 2 * i in the
\* table (7, 9, 11, 13, 15), 15 + 2 * (i - 4) from i = 5 on, 2 more than the
\* level before; and from i = 5 on the obstacle count, 8, and the
\* moving-obstacles flag are those of the table's last entry.
C21_LevelSize ==
    pc = "start" =>
        LET i == levelIndex
        IN  /\ width = height
            /\ width % 2 = 1
            /\ width >= 7
            /\ width = IF i <= 4 THEN <<7, 9, 11, 13, 15>>[i + 1]
                                 ELSE 15 + 2 * (i - 4)
            /\ i >= 1 => width = LevelSize(i - 1) + 2
            /\ i >= 5 => /\ count = LastConfig.obstacles + 2
                         /\ LevelConfig(i).obstacles = LastConfig.obstacles
                         /\ LevelConfig(i).movingObstacles
                               = LastConfig.movingObstacles

\* C21 witness: generateMaze is entered for the first level past the table.
C21_Witness ==
    /\ pc = "start"
    /\ levelIndex = 5
    /\ width = 17

\* a step that starts a level: from the menu, from the level-complete screen
\* or from the pause overlay into MEMORIZE
LevelStart == phase # "MEMORIZE" /\ phase' = "MEMORIZE"

\* C22: right after a level start, from MENU, from LEVEL_COMPLETE or from the
\* pause overlay, the ability cooldown is 0, the revealed path is empty, the
\* session is not paused, the ability is not ready, the phase is MEMORIZE and
\* the countdown is 10.
C22_StartResets ==
    [][ LevelStart =>
            /\ pulveriseCooldown' = 0
            /\ optimalPath' = <<>>
            /\ ~isPaused'
            /\ ~canPulverise'
            /\ phase' = "MEMORIZE"
            /\ timer' = MEMORIZE_TIME ]_vars

\* the parts of C22 other than the cooldown
StartResetsOthers ==
    [][ LevelStart =>
            /\ optimalPath' = <<>>
            /\ ~isPaused'
            /\ ~canPulverise'
            /\ timer' = MEMORIZE_TIME ]_vars

\* a side generateMaze is made for: odd and at least 5
ValidSide(n) == n % 2 = 1 /\ n >= 5

\* C23: generateMaze called with an even side, or a side below 5, returns no
\* grid.
C23_RejectsBadSize ==
    pc = "done" => ValidSide(width) /\ ValidSide(height)

\* generateMaze has returned a grid, from sides that are not both valid, that
\* has no START cell or whose END is not at (width - 2, height - 2)
CorruptGrid ==
    /\ pc = "done"
    /\ ~(ValidSide(width) /\ ValidSide(height))
    /\ \/ CellsOf(grid, START) = {}
       \/ end # [x |-> width - 2, z |-> height - 2]

\* a position is less than 0.5 from the centre of the cell or spot (x, z)
Reaches(pos, x, z) == InReach(Dist2(10 * x, 10 * z, pos.x, pos.z))

\* the translation of a frame uses the heading its rotation produced
TranslatesAfterTurn ==
    [][ \A forward \in Travels, strafe \in Travels, turn \in Turns,
           offs \in Offsets(obstacles), eager \in BOOLEAN :
           update(forward, strafe, turn, offs, eager) =>
              playerPos' = IF forward # 0 \/ strafe # 0
                             THEN ResolveMove(playerPos,
                                      MoveDx(forward, strafe, playerRotation'),
                                      MoveDz(forward, strafe, playerRotation'),
                                      grid)
                             ELSE playerPos ]_vars

\* the win test of a frame that takes no life is made at the position its
\* translation produced
WinsWhereMoved ==
    [][ (Tick /\ lives' >= lives) =>
           (phase' = "LEVEL_COMPLETE" <=> Reaches(playerPos', end.x, end.z)) ]_vars

\* the pickup test of a frame is made at the position its translation
\* produced
PicksWhereMoved ==
    [][ Tick =>
           \A i \in 1..Len(powerUps) :
              ~powerUps[i].collected =>
                 (powerUps'[i].collected
                    <=> Reaches(playerPos', powerUps[i].x, powerUps[i].z)) ]_vars

\* the hit test of a frame is made at the position its translation produced:
\* a player who is not invulnerable is hit by a spike exactly when the
\* position after the frame is within the hit radius of one
HitWhereMoved ==
    [][ ((Tick \/ StraightTick) /\ ~invulnerable) =>
           (invulnerable' <=>
              \E i \in 1..Len(obstacles) :
                 /\ obstacles[i].type = "STATIC_SPIKE"
                 /\ InHitRange(Dist2(10 * obstacles[i].x, 10 * obstacles[i].z,
                                     playerPos'.x, playerPos'.z))) ]_vars

\* C24: in a frame of PLAYING the hit test, the pickup test and the win test
\* are made at the position the frame's translation produced, and the
\* translation uses the heading the frame's rotation produced.
C24_SameTick ==
    /\ TranslatesAfterTurn
    /\ WinsWhereMoved
    /\ PicksWhereMoved
    /\ HitWhereMoved

\* the player does not begin a level invulnerable
StartsVulnerable == [][ LevelStart => ~invulnerable' ]_vars

\* In a session whose levels have one MAP_REVEAL power-up each, a revealed
\* path is cleared, within its level, by the expiry of its own pickup: the
\* only expiry pending.  With two pending, the one that fires is left from
\* before the level's start.
ClearedByOwnExpiry ==
    [][ (optimalPath # <<>> /\ optimalPath' = <<>> /\ ~LevelStart)
            => revealTimeouts = 1 ]_vars

\* C25: an expiry of the invulnerability or of the revealed path that was
\* scheduled before a level start changes nothing of the level started: the
\* player does not begin the level invulnerable, with an expiry from before
\* the start left to alter the flag, and the path revealed in the level is
\* not cleared by an expiry from before the start.
C25_NoStaleExpiry ==
    /\ StartsVulnerable
    /\ ClearedByOwnExpiry

\* an expiry of collectPowerUp fires in this step
Expires == revealTimeouts' < revealTimeouts

\* C26: the path a MAP_REVEAL pickup stages stays staged until the expiry of
\* that pickup, scheduled last and so the last one pending, and is then
\* cleared: within a level, an expiry that fires while a later one is pending
\* leaves the staged path as it is, and with no expiry pending the path is
\* empty.
C26_FullDisplay ==
    /\ [][ (Expires /\ revealTimeouts' > 0) => optimalPath' = optimalPath ]_vars
    /\ [][ (Expires /\ revealTimeouts' = 0) => optimalPath' = <<>> ]_vars
    /\ [](revealTimeouts = 0 => optimalPath = <<>>)

\* the parts of C26 that are about the last pending expiry
LastExpiryClears ==
    /\ [][ (Expires /\ revealTimeouts' = 0) => optimalPath' = <<>> ]_vars
    /\ [](revealTimeouts = 0 => optimalPath = <<>>)

\* a MAP_REVEAL power-up is collected in this step
StagesPath == revealTimeouts' > revealTimeouts

\* C27: the path staged when a MAP_REVEAL power-up is collected is not empty,
\* begins at the cell got by flooring the player's position, ends at the END
\* cell and has no WALL cell, its first cell included.
C27_StagedPath ==
    [][ StagesPath =>
           /\ optimalPath' # <<>>
           /\ optimalPath'[1] = [x |-> Floor(playerPos.x), z |-> Floor(playerPos.z)]
           /\ optimalPath'[Len(optimalPath')] = end
           /\ \A k \in 1..Len(optimalPath') :
                 grid[optimalPath'[k].z][optimalPath'[k].x] # WALL ]_vars

\* the parts of C27 other than the one about WALL cells
StagedPathEnds ==
    [][ StagesPath =>
           /\ optimalPath' # <<>>
           /\ optimalPath'[1] = [x |-> Floor(playerPos.x), z |-> Floor(playerPos.z)]
           /\ optimalPath'[Len(optimalPath')] = end
           /\ \A k \in 2..Len(optimalPath') :
                 grid[optimalPath'[k].z][optimalPath'[k].x] # WALL ]_vars

\* the power-ups of the given type that this step collects
NewlyCollected(type) ==
    {i \in 1..Len(powerUps) :
        /\ powerUps[i].type = type
        /\ ~powerUps[i].collected
        /\ powerUps'[i].collected}

\* C28: a power-up takes effect once: a step within a level that collects
\* power-ups, adds lives or stages a path raises lives by one for each
\* EXTRA_LIFE it collects (less the hits it applies) and stages a path, with
\* its expiry, once for each MAP_REVEAL it collects, whether or not a second
\* frame comes before the collected flags are committed.
C28_OncePerPowerUp ==
    [][ (/\ ~LevelStart
         /\ \/ powerUps' # powerUps
            \/ lives' > lives
            \/ StagesPath)
        => /\ lives' = lives - (hitTimeouts' - hitTimeouts)
                          + Cardinality(NewlyCollected("EXTRA_LIFE"))
           /\ revealTimeouts' = revealTimeouts
                                  + Cardinality(NewlyCollected("MAP_REVEAL")) ]_vars

\* C29: within a level the collection of power-ups keeps its members, with
\* their ids, places and types; a collected flag that is set stays set; and a
\* step sets the flag only of power-ups within the pickup radius of the
\* player, leaving the flag of every other power-up as it is.
C29_CollectedOnce ==
    [][ ~LevelStart =>
           /\ Len(powerUps') = Len(powerUps)
           /\ \A i \in 1..Len(powerUps) :
                 /\ powerUps'[i] = [powerUps[i] EXCEPT
                                      !.collected = powerUps'[i].collected]
                 /\ powerUps[i].collected => powerUps'[i].collected
                 /\ powerUps'[i].collected # powerUps[i].collected
                       => i \in Collected(powerUps, playerPos) ]_vars

\* C29 witness: in PLAYING one power-up of the level is collected and another
\* is not.
C29_Witness ==
    /\ phase = "PLAYING"
    /\ \E i \in 1..Len(powerUps), j \in 1..Len(powerUps) :
          powerUps[i].collected /\ ~powerUps[j].collected

\* C30: within a level the obstacles after a step are obstacles of before
\* the step, in their order and with their stored data (id, type, initial
\* position, axis, speed, range) as they were: none is added and none is
\* modified, by frames, hits or triggers; and a step that removes an obstacle
\* is a trigger of the ability while it is enabled.
C30_OnlyShrinks ==
    [][ ~LevelStart =>
           /\ \E keep \in SUBSET (1..Len(obstacles)) :
                 obstacles' = Pick(obstacles, keep)
           /\ obstacles' # obstacles =>
                 /\ phase = "PLAYING"
                 /\ ~isPaused
                 /\ canPulverise
                 /\ \E offs \in Offsets(obstacles) : handlePulverise(offs) ]_vars

\* C30 witness: on level 1, made with two obstacles, one obstacle is left
\* after a frame in which the player was hit.
C30_Witness ==
    /\ phase = "PLAYING"
    /\ levelIndex = 1
    /\ Len(obstacles) = 1
    /\ invulnerable


(***************************************************************************)
(* Properties of the level startLevel makes                                *)
(***************************************************************************)

\* the obstacles and power-ups of the level, in one sequence
Entities == obstacles \o powerUps

\* C31: startLevel asks the sampler for n + 2 spots, n being the level's
\* obstacle count; when the sampler returns k spots, the obstacles are on the
\* first min(n, k) spots in order and the power-ups, all uncollected, on the
\* max(0, k - n) spots after them (two when the sample is full); obstacle i,
\* counted from 0, is a PATROL_ENEMY exactly when the level has moving
\* obstacles and i is even, and a STATIC_SPIKE otherwise; the ids of the
\* entities are distinct and no two entities are on one cell.
C31_LevelEntities ==
    pc = "done" =>
        LET config == LevelConfig(levelIndex)
            n == config.obstacles
            k == Len(spots)
        IN  /\ count = n + 2
            /\ Len(obstacles) = (IF n < k THEN n ELSE k)
            /\ Len(powerUps) = (IF k - n > 0 THEN k - n ELSE 0)
            /\ k = n + 2 => Len(powerUps) = 2
            /\ \A i \in 1..Len(obstacles) :
                  /\ obstacles[i].x = spots[i].x
                  /\ obstacles[i].z = spots[i].z
                  /\ obstacles[i].type \in {"PATROL_ENEMY", "STATIC_SPIKE"}
                  /\ obstacles[i].type = "PATROL_ENEMY"
                        <=> (config.movingObstacles /\ (i - 1) % 2 = 0)
            /\ \A j \in 1..Len(powerUps) :
                  /\ powerUps[j].x = spots[n + j].x
                  /\ powerUps[j].z = spots[n + j].z
                  /\ ~powerUps[j].collected
            /\ \A a, b \in 1..Len(Entities) :
                  a # b => /\ Entities[a].id # Entities[b].id
                           /\ ~(/\ Entities[a].x = Entities[b].x
                                /\ Entities[a].z = Entities[b].z)

\* A level with moving obstacles is made from a sample one spot short: four
\* obstacles, patrols and spikes in turn, and one power-up.
C31_Witness ==
    /\ pc = "done"
    /\ LevelConfig(levelIndex).movingObstacles
    /\ Len(spots) = LevelConfig(levelIndex).obstacles + 1
    /\ Len(obstacles) = 4
    /\ obstacles[1].type = "PATROL_ENEMY"
    /\ obstacles[2].type = "STATIC_SPIKE"
    /\ Len(powerUps) = 1

\* the headings startLevel chooses from, in its order: North, South, East,
\* West, in quarter turns
Headings == <<0, 2, 3, 1>>

\* the cell next to cell c that a player with heading q faces: where the
\* stick pushed forward (moveY = -1) takes the player
Faced(c, q) == [x |-> c.x + MoveDx(-1, 0, q), z |-> c.z + MoveDz(-1, 0, q)]

\* the cell c of grid g is in the grid and not a WALL
Open(g, c) ==
    /\ c.z \in DOMAIN g
    /\ c.x \in DOMAIN g[c.z]
    /\ g[c.z][c.x] # WALL

\* C32: after startLevel the player stands on the START cell and faces a
\* cardinal neighbour of START that is not a WALL, the first one in the order
\* North, South, East, West; a generated maze always has one.
C32_FacesOpening ==
    [][ LevelStart =>
          LET open == {i \in 1..Len(Headings) :
                          Open(grid', Faced(start', Headings[i]))}
          IN  /\ grid'[start'.z][start'.x] = START
              /\ playerPos' = AsPosition(start')
              /\ open # {}
              /\ \E i \in open :
                    /\ \A k \in open : i <= k
                    /\ playerRotation' = Headings[i]
              /\ Open(grid', Faced(start', playerRotation')) ]_vars

\* A level has started in a maze whose START opens to the East only: the
\* player faces East.
C32_Witness ==
    /\ phase = "MEMORIZE"
    /\ playerPos = AsPosition(start)
    /\ grid[start.z + 1][start.x] = WALL
    /\ grid[start.z][start.x + 1] # WALL
    /\ playerRotation = 3

(***************************************************************************)
(* Properties of the ability's cooldown                                    *)
(***************************************************************************)

C34_NeverInWall ==
    grid # <<>> => ~HitsWall(playerPos.x, playerPos.z, grid)

\* The player is off the START cell and stands in a corner, the box
\* against a wall on two sides: a tenth further along either axis and it
\* would overlap one.
C34_Witness ==
    /\ phase = "PLAYING"
    /\ OnGrid(playerPos, width, height)
    /\ CellOf(playerPos) # <<start.x, start.z>>
    /\ HitsWall(playerPos.x - 1, playerPos.z, grid)
    /\ HitsWall(playerPos.x, playerPos.z - 1, grid)
    /\ ~HitsWall(playerPos.x, playerPos.z, grid)

\* the cell nearest to a position: the one whose unit square holds it
Nearest(pos) == <<Floor(pos.x + 5), Floor(pos.z + 5)>>

\* the integers from one of a and b to the other
Span(a, b) == IF a <= b THEN a..b ELSE b..a

\* Whether the player's box overlaps a WALL cell somewhere on the way from a
\* to b, taken along x first and then along z, as the updater takes it.
Crosses(a, b, g) ==
    \/ \E x \in Span(a.x, b.x) : HitsWall(x, a.z, g)
    \/ \E z \in Span(a.z, b.z) : HitsWall(b.x, z, g)

\* C35: in every state of a level the player's position is on the grid and
\* the cell nearest to it is a non-WALL cell connected to START; no frame,
\* however long, takes the player across a wall or off the grid.
C35_StaysInMaze ==
    /\ [](grid # <<>> =>
            /\ OnGrid(playerPos, width, height)
            /\ Nearest(playerPos) \in
                  ReachableFrom(grid, <<start.x, start.z>>))
    /\ [][ (grid # <<>> /\ grid' = grid /\ playerPos' # playerPos)
              => ~Crosses(playerPos, playerPos', grid) ]_vars

\* no frame takes the player onto a cell that is not connected to START
StaysConnected ==
    (grid # <<>> /\ OnGrid(playerPos, width, height))
        => Nearest(playerPos) \in ReachableFrom(grid, <<start.x, start.z>>)

\* C36: whenever the ability is triggered while it is ready, at least one
\* obstacle is removed: the obstacle that a frame found within the range is
\* still found within it at the trigger, and no cooldown is spent on nothing.
C36_TriggerRemoves ==
    [][ \A offs \in Offsets(obstacles) :
            (phase = "PLAYING" /\ ~isPaused /\ canPulverise
                /\ handlePulverise(offs))
            => Len(obstacles') < Len(obstacles) ]_vars

(***************************************************************************)
(* Properties of lives and levelIndex across the buttons                   *)
(***************************************************************************)

\* C37: a level started from MENU is level 0 with 3 lives; one started from
\* LEVEL_COMPLETE is the next level with the lives as they were; one started
\* from the pause overlay is the same level with the lives as they were;
\* pausing, resuming, skipping the countdown and triggering the ability
\* leave lives and levelIndex as they are.
C37_CarryOver ==
    [][ /\ (phase = "MENU" /\ LevelStart)
              => (lives' = 3 /\ levelIndex' = 0)
        /\ (phase = "LEVEL_COMPLETE" /\ LevelStart)
              => (lives' = lives /\ levelIndex' = levelIndex + 1)
        /\ (isPaused /\ LevelStart)
              => (lives' = lives /\ levelIndex' = levelIndex)
        /\ (isPaused' # isPaused /\ ~LevelStart)
              => (lives' = lives /\ levelIndex' = levelIndex)
        /\ (phase = "MEMORIZE" /\ phase' = "PLAYING")
              => (lives' = lives /\ levelIndex' = levelIndex)
        /\ (canPulverise /\ pulveriseCooldown' = 3)
              => (lives' = lives /\ levelIndex' = levelIndex) ]_vars

\* The second level has been restarted from the pause overlay after a hit:
\* it starts again with the lives the hit left.
C37_Witness ==
    /\ phase = "MEMORIZE"
    /\ levelIndex = 1
    /\ lives < 3
=============================================================================
